---- MODULE Spec2Model ----
(***************************************************************************)
(* SSH Operations Hub (src/ssh_operations_hub.py): the concurrent dispatch  *)
(* engine.  Text is modelled as sequences of one-character strings, so     *)
(* that strip / split / join / replace are computed as Python computes     *)
(* them.                                                                   *)
(***************************************************************************)
EXTENDS Integers, Sequences, FiniteSets, TLC

(***************************************************************************)
(* Bounds of the model.                                                    *)
(***************************************************************************)
\* hosts handed to execute_commands, primary and secondary together
MaxTasks == 3
\* largest value tried for max_parallel_connections
MaxParallel == 2
\* hosts of the secondary group
MaxSecondary == 1
\* longest captured stdout / stderr text tried by the executor specification
MaxTextLen == 3
\* hosts of a dispatch checked under fair scheduling
MaxLiveTasks == 2
\* longest allow-list token tried
MaxTokenLen == 4
\* longest list of host suffixes given to one validation pass
MaxSuffixes == 3
\* longest list of host suffixes given to run() for one group
MaxRunSuffixes == 2
\* longest raw prefix handed to _validate_ip_prefix
MaxPrefixLen == 7
\* most hosts of one group handed to execute_commands directly
MaxGroupHosts == 2
\* most calls of the installer's methods in one run
MaxCalls == 2
\* longest ALLOWED_IPS value handed to _parse_allowed_ips
MaxAllowedLen == 5
\* most tokens in a list handed to _parse_allowed_ips
MaxAllowedTokens == 3
\* most pieces a text handed to _substitute_variables is made of
MaxPieces == 3

(***************************************************************************)
(* Text helpers: Python str operations used by the program.                *)
(***************************************************************************)
NL == "\n"

\* characters removed by str.strip() with no argument, within the alphabet
IsSpace(c) == c \in {" ", NL}

RECURSIVE LStrip(_)
LStrip(s) ==
  IF s # <<>> /\ IsSpace(Head(s)) THEN LStrip(Tail(s)) ELSE s

RECURSIVE RStrip(_)
RStrip(s) ==
  IF s # <<>> /\ IsSpace(s[Len(s)]) THEN RStrip(SubSeq(s, 1, Len(s) - 1)) ELSE s

\* str.strip()
StrStrip(s) == RStrip(LStrip(s))

\* str.split(sep) for a one-character separator: ''.split(sep) = ['']
RECURSIVE StrSplit(_, _)
StrSplit(s, sep) ==
  IF \E i \in 1..Len(s) : s[i] = sep
  THEN LET i == CHOOSE j \in 1..Len(s) :
                  s[j] = sep /\ \A k \in 1..(j - 1) : s[k] # sep
       IN  <<SubSeq(s, 1, i - 1)>> \o StrSplit(SubSeq(s, i + 1, Len(s)), sep)
  ELSE <<s>>

\* sep.join(parts)
RECURSIVE StrJoin(_, _)
StrJoin(sep, parts) ==
  IF parts = <<>> THEN <<>>
  ELSE IF Len(parts) = 1 THEN parts[1]
  ELSE parts[1] \o sep \o StrJoin(sep, Tail(parts))

\* s.startswith(p)
StartsWith(s, p) == Len(p) <= Len(s) /\ SubSeq(s, 1, Len(p)) = p

\* p in s
Contains(s, p) ==
  \E i \in 1..(Len(s) - Len(p) + 1) : SubSeq(s, i, i + Len(p) - 1) = p

\* str(n) / f"{n}" for a non-negative integer
DigitChars == <<"0", "1", "2", "3", "4", "5", "6", "7", "8", "9">>

RECURSIVE IntToStr(_)
IntToStr(n) ==
  IF n < 10 THEN <<DigitChars[n + 1]>>
  ELSE IntToStr(n \div 10) \o <<DigitChars[(n % 10) + 1]>>

\* text.replace(pat, rep): leftmost non-overlapping occurrences
RECURSIVE StrReplace(_, _, _)
StrReplace(s, pat, rep) ==
  IF Len(s) < Len(pat) THEN s
  ELSE IF SubSeq(s, 1, Len(pat)) = pat
       THEN rep \o StrReplace(SubSeq(s, Len(pat) + 1, Len(s)), pat, rep)
       ELSE <<Head(s)>> \o StrReplace(Tail(s), pat, rep)

(***************************************************************************)
(* Literals of the program.                                                *)
(***************************************************************************)
default_ip_prefix == <<"1", "0", ".", "2", "0", "0", ".", "1", "4", "2">>

CLIENT_NUM == <<"$", "C", "L", "I", "E", "N", "T", "_", "N", "U", "M">>

TxtClient == <<"[", "C", "l", "i", "e", "n", "t", " ">>
TxtBar == <<" ", "|", " ">>
TxtAborted ==
  <<" ", "A", "b", "o", "r", "t", "e", "d", " ", "d", "u", "e", " ",
    "t", "o", " ", "s", "h", "u", "t", "d", "o", "w", "n">>
TxtNoConn ==
  <<" ", "E", "r", "r", "o", "r", ":", " ", "C", "o", "u", "l", "d", " ",
    "n", "o", "t", " ", "e", "s", "t", "a", "b", "l", "i", "s", "h", " ",
    "S", "S", "H", " ", "c", "o", "n", "n", "e", "c", "t", "i", "o", "n", " ",
    "t", "o", " ">>
TxtTimedOut ==
  <<" ", "E", "r", "r", "o", "r", ":", " ", "C", "o", "m", "m", "a", "n", "d",
    " ", "t", "i", "m", "e", "d", " ", "o", "u", "t">>
TxtFailed ==
  <<" ", "E", "r", "r", "o", "r", ":", " ", "C", "o", "m", "m", "a", "n", "d",
    " ", "f", "a", "i", "l", "e", "d", " ", "w", "i", "t", "h", " ",
    "s", "t", "a", "t", "u", "s", " ">>
TxtOutput == <<" ", "O", "u", "t", "p", "u", "t", ":", " ">>
TxtUnknown ==
  <<"U", "n", "k", "n", "o", "w", "n", " ", "e", "r", "r", "o", "r">>
TxtUnexpected ==
  <<" ", "U", "n", "e", "x", "p", "e", "c", "t", "e", "d", " ",
    "e", "r", "r", "o", "r", ":", " ">>
TxtRunning == <<" ", "R", "u", "n", "n", "i", "n", "g", " ", "'">>
TxtOn == <<"'", " ", "o", "n", " ">>
TxtInterrupted ==
  <<"I", "n", "t", "e", "r", "r", "u", "p", "t", "e", "d", "!", " ",
    "S", "t", "o", "p", "p", "i", "n", "g", " ", "a", "l", "l", " ",
    "S", "S", "H", " ", "c", "o", "n", "n", "e", "c", "t", "i", "o",
    "n", "s", ".", ".", ".">>
TxtNoIps ==
  <<"N", "o", " ", "I", "P", " ", "a", "d", "d", "r", "e", "s", "s",
    "e", "s", " ", "s", "p", "e", "c", "i", "f", "i", "e", "d">>
TxtNoCommand ==
  <<"N", "o", " ", "c", "o", "m", "m", "a", "n", "d", " ", "s", "p",
    "e", "c", "i", "f", "i", "e", "d">>
TxtRoot == <<"r", "o", "o", "t">>
TxtAdmin == <<"a", "d", "m", "i", "n">>

(***************************************************************************)
(* _execute_ssh_command: label and the result of each branch.              *)
(***************************************************************************)
\* ip.split('.')[-1]
ClientNum(ip) == LET parts == StrSplit(ip, ".") IN parts[Len(parts)]

\* f"[Client {client_num} | {ip}]"
Label(ip) == TxtClient \o ClientNum(ip) \o TxtBar \o ip \o <<"]">>

\* f"{user}@{ip}"
Target(user, ip) == user \o <<"@">> \o ip

Result(ok, text) == [success |-> ok, output |-> text]

\* return False, f"{label} Aborted due to shutdown"
AbortResult(ip) == Result(FALSE, Label(ip) \o TxtAborted)

\* return False, f"{label} Error: Could not establish SSH connection to ..."
ConnFailResult(user, ip) ==
  Result(FALSE, Label(ip) \o TxtNoConn \o Target(user, ip))

\* mutant of OutputLines: empty lines are labelled and kept
OutputLinesKeepEmpty(ip, stdout) ==
  LET lines == StrSplit(StrStrip(stdout), NL)
  IN  [i \in 1..Len(lines) |-> Label(ip) \o <<" ">> \o lines[i]]

\* the loop over result.stdout.strip().split('\n') keeping non-empty lines
OutputLines(ip, stdout) ==
  LET lines == StrSplit(StrStrip(stdout), NL)
      kept == SelectSeq(lines, LAMBDA line : line # <<>>)
  IN  [i \in 1..Len(kept) |-> Label(ip) \o <<" ">> \o kept[i]]

\* return True, '\n'.join(output_lines)
SuccessResult(ip, stdout) ==
  Result(TRUE, StrJoin(<<NL>>, OutputLines(ip, stdout)))

\* return False, f"{label} Error: Command timed out"
TimeoutResult(ip) == Result(FALSE, Label(ip) \o TxtTimedOut)

\* mutant of ErrorOutput: no fallback text for an empty stderr
ErrorOutputNoFallback(stderr) == StrStrip(stderr)

\* e.stderr.strip() if e.stderr else "Unknown error"
ErrorOutput(stderr) == IF stderr # <<>> THEN StrStrip(stderr) ELSE TxtUnknown

\* return False, f"{label} Error: Command failed with status ...\n{label} Output: ..."
FailResult(ip, rc, stderr) ==
  Result(FALSE,
         Label(ip) \o TxtFailed \o IntToStr(rc) \o <<NL>>
           \o Label(ip) \o TxtOutput \o ErrorOutput(stderr))

(***************************************************************************)
(* State.                                                                  *)
(***************************************************************************)
VARIABLES
  shutdown,                  \* shutdown_event.is_set()
  preset,                    \* the flag was already set when the call began
  deadline,                  \* global_timeout has elapsed since as_completed was called
  max_parallel_connections,  \* size of the worker pool
  primary_ips, secondary_ips, primary_user, secondary_user, command,
  tasks,                     \* the task list built by execute_commands
  submitted,                 \* tasks 1..submitted have been submitted to the pool
  work_queue,                \* submitted tasks no worker has taken yet, FIFO
  wpc,                       \* per task: position of its _execute_ssh_command call
  calls,                     \* per task: the subprocess.run invocations made, in order
  fut,                       \* per task: state of its future
  produced,                  \* per task: (success, output) tuples returned so far
  observed,                  \* per task: what the remote-shell client did (exit, stdout, stderr)
  dpc,                       \* position of execute_commands
  how,                       \* how execute_commands was left
  waiter,                    \* futures finished since as_completed last collected
  batch,                     \* finished futures as_completed is about to yield
  yielded,                   \* futures as_completed has yielded
  cur,                       \* the future bound by the for loop
  sink,                      \* everything handed to the logger, in order
  ssh_client,                \* what running 'ssh -V' does on this machine
  parsed_args,               \* what parser.parse_args(args) gives run()
  ip_prefix,                 \* self.ip_prefix
  allowed_ips,               \* self.allowed_ips
  ops,                       \* the methods run() has called, in order
  arg,                       \* a method called directly: its name and argument
  ret,                       \* what that method returned
  geteuid,                   \* os.geteuid() of the installer's process
  files,                     \* the paths the installer reads and writes
  before,                    \* files when the installer's method was called
  invocations                \* calls of the installer's methods so far

vars ==
  <<shutdown, preset, deadline, max_parallel_connections, primary_ips,
    secondary_ips, primary_user, secondary_user, command, tasks, submitted,
    work_queue, wpc, calls, fut, produced, observed, dpc, how, waiter, batch,
    yielded, cur, sink, ssh_client, parsed_args, ip_prefix, allowed_ips, ops,
    arg, ret, geteuid, files, before, invocations>>

\* the hub object and the call under study, as the dispatch leaves them
installVars == <<geteuid, files, before, invocations>>

hubVars ==
  <<ssh_client, parsed_args, ip_prefix, allowed_ips, ops, arg, ret,
    installVars>>

inputVars ==
  <<preset, max_parallel_connections, primary_ips, secondary_ips, primary_user,
    secondary_user, command, hubVars>>

clock == <<deadline>>

workerVars == <<work_queue, wpc, calls, fut, produced, observed>>

iterVars == <<waiter, batch, yielded, cur>>

(***************************************************************************)
(* Inputs.                                                                 *)
(***************************************************************************)
\* f"{self.ip_prefix}.{ip_suffix}" for an allowed suffix
HostIp(n) == default_ip_prefix \o <<".">> \o IntToStr(n)

\* the command template given on the command line
CmdTemplate == <<"i", "d", " ">> \o CLIENT_NUM

\* exit statuses of a failed remote command
ExitCodes == {1, 127}

\* str(e) of an OSError raised by subprocess.run when the client cannot be launched
FaultText == <<"E", "N", "O", "E", "N", "T">>

TextAlphabet == {"a", " ", NL}

\* every text over the alphabet up to a length
TextsUpTo(n) == UNION {[1..k -> TextAlphabet] : k \in 0..n}

\* captured texts tried while several tasks run concurrently
DispatchTexts == {<<>>, <<"a">>}

NoObservation == [probe |-> "none", cmd |-> "none", rc |-> 0,
                  stdout |-> <<>>, stderr |-> <<>>]

PendingFuture == [kind |-> "pending", success |-> FALSE, output |-> <<>>]

(***************************************************************************)
(* execute_commands: task list.                                            *)
(***************************************************************************)
\* text.replace('$CLIENT_NUM', client_num)
\* str.replace(pat, rep, 1): the first occurrence only
RECURSIVE StrReplaceFirst(_, _, _)
StrReplaceFirst(s, pat, rep) ==
  IF Len(s) < Len(pat) THEN s
  ELSE IF SubSeq(s, 1, Len(pat)) = pat
       THEN rep \o SubSeq(s, Len(pat) + 1, Len(s))
       ELSE <<Head(s)>> \o StrReplaceFirst(Tail(s), pat, rep)

substitute_first_only(text, client_num) ==
  StrReplaceFirst(text, CLIENT_NUM, client_num)

substitute_variables(text, client_num) == StrReplace(text, CLIENT_NUM, client_num)

\* mutant of MakeTask: the user template is used as it is
MakeTaskRawUser(user_tmpl, ip, cmd_tmpl) ==
  [user |-> user_tmpl,
   ip |-> ip,
   cmd |-> StrReplace(cmd_tmpl, CLIENT_NUM, ClientNum(ip))]

\* (user, ip, cmd) of one host
MakeTask(user_tmpl, ip, cmd_tmpl) ==
  [user |-> substitute_variables(user_tmpl, ClientNum(ip)),
   ip |-> ip,
   cmd |-> substitute_variables(cmd_tmpl, ClientNum(ip))]

\* primary tasks, then secondary tasks
BuildTasks(pips, sips, puser, suser, cmd) ==
  [i \in 1..Len(pips) |-> MakeTask(puser, pips[i], cmd)]
    \o [i \in 1..Len(sips) |-> MakeTask(suser, sips[i], cmd)]

NTasks == Len(tasks)
TaskIds == 1..NTasks

\* executor invocations that have been entered and have not returned
Active == {t \in TaskIds : wpc[t] \in {"entered", "probe", "command"}}

AllFinished == \A t \in 1..submitted : wpc[t] = "done"

\* the waiter as_completed installs on every future exists while the loop runs
WaiterInstalled == dpc \in {"iter", "wait", "body"}

\* all orders of a finite set
Perms(S) ==
  {f \in [1..Cardinality(S) -> S] :
     \A i, j \in 1..Cardinality(S) : i # j => f[i] # f[j]}

LogRec(level, src, t, text) ==
  [level |-> level, src |-> src, task |-> t, text |-> text]

(***************************************************************************)
(* Initial states.                                                         *)
(***************************************************************************)
InitCommon ==
  /\ shutdown \in BOOLEAN
  /\ preset = shutdown
  /\ deadline = FALSE
  /\ primary_user = TxtRoot
  /\ secondary_user = TxtAdmin
  /\ submitted = 0
  /\ work_queue = <<>>
  /\ how = "none"
  /\ waiter = <<>>
  /\ batch = <<>>
  /\ yielded = {}
  /\ cur = 0
  /\ sink = <<>>

\* lines 46-47: the allow-list the constructor sets
DefaultAllowedIps ==
  [i \in 1..10 |-> IntToStr(i)]
    \o <<IntToStr(15), IntToStr(17)>>
    \o [i \in 1..6 |-> IntToStr(19 + i)]

NoArgs == [given |-> FALSE]

NoCall == [fn |-> "none", val |-> <<>>]

\* a version file that does not exist
NoVersionFile == [exists |-> FALSE, text |-> <<>>]

\* nothing installed in one mode
NotInstalled ==
  [target_script |-> FALSE, backup |-> FALSE, config_dir |-> FALSE,
   version_file |-> NoVersionFile]

\* the paths of the installer on a machine it never ran on
NoFiles ==
  [source_script |-> TRUE, config_source |-> FALSE, lib_dir |-> FALSE,
   usr_bin_link |-> FALSE, system |-> NotInstalled, user |-> NotInstalled]

\* the installer is not running
InstallerIdle ==
  /\ geteuid = 1000
  /\ files = NoFiles
  /\ before = NoFiles
  /\ invocations = 0

\* lines 44-47: the hub as constructed, no method called directly
InitHub ==
  /\ InstallerIdle
  /\ ssh_client = "ok"
  /\ parsed_args = NoArgs
  /\ ip_prefix = default_ip_prefix
  /\ allowed_ips = DefaultAllowedIps
  /\ ops = <<>>
  /\ arg = NoCall
  /\ ret = <<>>

\* execute_commands is about to be called
Init ==
  /\ InitCommon
  /\ InitHub
  /\ max_parallel_connections \in 1..MaxParallel
  /\ \E np \in 0..MaxTasks : \E ns \in 0..MaxSecondary :
       /\ np + ns <= MaxTasks
       /\ primary_ips = [i \in 1..np |-> HostIp(i)]
       /\ secondary_ips = [i \in 1..ns |-> HostIp(np + i)]
  /\ command \in {<<>>, CmdTemplate}
  /\ tasks = <<>>
  /\ wpc = <<>>
  /\ calls = <<>>
  /\ fut = <<>>
  /\ produced = <<>>
  /\ observed = <<>>
  /\ dpc = "entry"

(***************************************************************************)
(* Worker pool: ThreadPoolExecutor(max_workers=max_parallel_connections)   *)
(* running _execute_ssh_command for each submitted task.                   *)
(***************************************************************************)
\* mutant of CanStart: the pool lets one worker too many run
CanStartOffByOne == Cardinality(Active) <= max_parallel_connections

\* mutant of CanStart: one worker of the pool never takes a task
CanStartOneIdle == Cardinality(Active) < max_parallel_connections - 1

\* a worker is free to take the next queued task
CanStart == Cardinality(Active) < max_parallel_connections

\* a worker takes the oldest queued task and enters _execute_ssh_command
StartTask ==
  /\ work_queue # <<>>
  /\ CanStart
  /\ wpc' = [wpc EXCEPT ![Head(work_queue)] = "entered"]
  /\ work_queue' = Tail(work_queue)
  /\ UNCHANGED <<shutdown, clock, inputVars, tasks, submitted, calls, fut,
                 produced, observed, dpc, how, iterVars, sink>>

\* the call for task t ends: its future is resolved and the waiter notified
Resolve(t, kind, res) ==
  /\ wpc' = [wpc EXCEPT ![t] = "done"]
  /\ fut' = [fut EXCEPT ![t] =
               [kind |-> kind, success |-> res.success, output |-> res.output]]
  /\ produced' = [produced EXCEPT ![t] =
                    IF kind = "result" THEN Append(@, res) ELSE @]
  /\ waiter' = IF WaiterInstalled THEN Append(waiter, t) ELSE waiter

\* mutant of EnterExecutor: the probe is started without looking at the flag
EnterExecutorNoCheck(t) ==
  /\ wpc[t] = "entered"
  /\ wpc' = [wpc EXCEPT ![t] = "probe"]
  /\ calls' = [calls EXCEPT ![t] = Append(@, "probe")]
  /\ UNCHANGED <<fut, produced, observed, waiter>>
  /\ UNCHANGED <<shutdown, clock, inputVars, tasks, submitted, work_queue,
                 dpc, how, batch, yielded, cur, sink>>

\* lines 179-186: label, the shutdown check, then the probe invocation
EnterExecutor(t) ==
  /\ wpc[t] = "entered"
  /\ IF shutdown
     THEN /\ Resolve(t, "result", AbortResult(tasks[t].ip))
          /\ UNCHANGED <<calls, observed>>
     ELSE /\ wpc' = [wpc EXCEPT ![t] = "probe"]
          /\ calls' = [calls EXCEPT ![t] = Append(@, "probe")]
          /\ UNCHANGED <<fut, produced, observed, waiter>>
  /\ UNCHANGED <<shutdown, clock, inputVars, tasks, submitted, work_queue,
                 dpc, how, batch, yielded, cur, sink>>

ProbeOutcomes == {"ok", "nonzero", "timeout", "oserror"}

\* probe outcomes tried while several tasks run concurrently
DispatchProbeOutcomes == {"ok", "nonzero", "oserror"}

\* mutant of AfterProbe: a probe that timed out is not treated as a failure
AfterProbeTimeoutPasses(outcome) ==
  CASE outcome \in {"ok", "timeout"} -> "command"
    [] outcome = "nonzero" -> "connfail"
    [] OTHER -> "raise"

\* lines 187-196: what the try/except around the probe does with its outcome
AfterProbe(outcome) ==
  CASE outcome = "ok" -> "command"
    [] outcome \in {"nonzero", "timeout"} -> "connfail"
    [] OTHER -> "raise"

\* the probe subprocess ends in one of Outcomes
ProbeDone(t, Outcomes) ==
  /\ wpc[t] = "probe"
  /\ \E outcome \in Outcomes :
       /\ observed' = [observed EXCEPT ![t].probe = outcome]
       /\ CASE AfterProbe(outcome) = "command" ->
                 /\ wpc' = [wpc EXCEPT ![t] = "command"]
                 /\ calls' = [calls EXCEPT ![t] = Append(@, "command")]
                 /\ sink' = Append(sink,
                      LogRec("info", "running", t,
                             Label(tasks[t].ip) \o TxtRunning \o tasks[t].cmd
                               \o TxtOn \o Target(tasks[t].user, tasks[t].ip)))
                 /\ UNCHANGED <<fut, produced, waiter>>
            [] AfterProbe(outcome) = "connfail" ->
                 /\ Resolve(t, "result",
                            ConnFailResult(tasks[t].user, tasks[t].ip))
                 /\ UNCHANGED <<calls, sink>>
            [] OTHER ->
                 /\ Resolve(t, "exception", Result(FALSE, FaultText))
                 /\ UNCHANGED <<calls, sink>>
  /\ UNCHANGED <<shutdown, clock, inputVars, tasks, submitted, work_queue,
                 dpc, how, batch, yielded, cur>>

CommandOutcomes == {"ok", "nonzero", "timeout", "oserror"}

\* command outcomes tried while several tasks run concurrently
DispatchCommandOutcomes == {"ok", "timeout"}

\* lines 202-223: the result of the command phase
CommandResult(task, obs) ==
  CASE obs.cmd = "ok" -> SuccessResult(task.ip, obs.stdout)
    [] obs.cmd = "timeout" -> TimeoutResult(task.ip)
    [] obs.cmd = "nonzero" -> FailResult(task.ip, obs.rc, obs.stderr)
    [] OTHER -> Result(FALSE, FaultText)

\* lines 219-221 catch TimeoutExpired and CalledProcessError only
CommandKind(outcome) == IF outcome = "oserror" THEN "exception" ELSE "result"

\* the command subprocess ends in one of Outcomes, having written stdout /
\* stderr from Texts
CommandDone(t, Outcomes, Texts) ==
  /\ wpc[t] = "command"
  /\ \E outcome \in Outcomes, txt \in Texts, rc \in ExitCodes :
       LET obs == [observed[t] EXCEPT
                     !.cmd = outcome,
                     !.rc = IF outcome = "nonzero" THEN rc ELSE 0,
                     !.stdout = IF outcome = "ok" THEN txt ELSE <<>>,
                     !.stderr = IF outcome = "nonzero" THEN txt ELSE <<>>]
       IN  /\ observed' = [observed EXCEPT ![t] = obs]
           /\ Resolve(t, CommandKind(outcome), CommandResult(tasks[t], obs))
  /\ UNCHANGED <<shutdown, clock, inputVars, tasks, submitted, work_queue,
                 calls, dpc, how, batch, yielded, cur, sink>>

(***************************************************************************)
(* execute_commands: the main thread.                                      *)
(***************************************************************************)
\* mutant of Enter: the two early returns are missing
EnterUnguarded ==
  /\ dpc = "entry"
  /\ LET built == BuildTasks(primary_ips, secondary_ips, primary_user,
                             secondary_user, command)
     IN  /\ tasks' = built
         /\ wpc' = [t \in 1..Len(built) |-> "new"]
         /\ calls' = [t \in 1..Len(built) |-> <<>>]
         /\ fut' = [t \in 1..Len(built) |-> PendingFuture]
         /\ produced' = [t \in 1..Len(built) |-> <<>>]
         /\ observed' = [t \in 1..Len(built) |-> NoObservation]
         /\ dpc' = "submit"
         /\ UNCHANGED <<how, sink>>
  /\ UNCHANGED <<shutdown, clock, inputVars, submitted, work_queue, iterVars>>

\* lines 232-255: the two early returns, else the task list and the pool
Enter ==
  /\ dpc = "entry"
  /\ IF primary_ips = <<>> /\ secondary_ips = <<>>
     THEN /\ sink' = Append(sink, LogRec("warning", "warn", 0, TxtNoIps))
          /\ dpc' = "left"
          /\ how' = "return"
          /\ UNCHANGED <<tasks, wpc, calls, fut, produced, observed>>
     ELSE IF command = <<>>
     THEN /\ sink' = Append(sink, LogRec("warning", "warn", 0, TxtNoCommand))
          /\ dpc' = "left"
          /\ how' = "return"
          /\ UNCHANGED <<tasks, wpc, calls, fut, produced, observed>>
     ELSE LET built == BuildTasks(primary_ips, secondary_ips, primary_user,
                                  secondary_user, command)
          IN  /\ tasks' = built
              /\ wpc' = [t \in 1..Len(built) |-> "new"]
              /\ calls' = [t \in 1..Len(built) |-> <<>>]
              /\ fut' = [t \in 1..Len(built) |-> PendingFuture]
              /\ produced' = [t \in 1..Len(built) |-> <<>>]
              /\ observed' = [t \in 1..Len(built) |-> NoObservation]
              /\ dpc' = "submit"
              /\ UNCHANGED <<how, sink>>
  /\ UNCHANGED <<shutdown, clock, inputVars, submitted, work_queue, iterVars>>

\* lines 260-263: executor.submit of the next task of the list
Submit ==
  /\ dpc = "submit"
  /\ submitted < NTasks
  /\ submitted' = submitted + 1
  /\ wpc' = [wpc EXCEPT ![submitted + 1] = "queued"]
  /\ work_queue' = Append(work_queue, submitted + 1)
  /\ UNCHANGED <<shutdown, clock, inputVars, tasks, calls, fut, produced,
                 observed, dpc, how, iterVars, sink>>

\* line 266: as_completed is called; futures already finished are yielded first
AsCompletedStart ==
  /\ dpc = "submit"
  /\ submitted = NTasks
  /\ batch' \in Perms({t \in TaskIds : wpc[t] = "done"})
  /\ waiter' = <<>>
  /\ yielded' = {}
  /\ dpc' = "iter"
  /\ UNCHANGED <<shutdown, clock, inputVars, tasks, submitted, workerVars,
                 how, cur, sink>>

\* as_completed raises TimeoutError: the deadline has passed with futures unyielded
TimedOut == deadline /\ yielded # TaskIds

\* mutant of OnTimeout: the timeout is swallowed and the call returns
OnTimeoutSwallowed == "return"

\* no except clause surrounds the loop: the TimeoutError leaves the call
OnTimeout == "TimeoutError"

\* line 266: the for loop asks as_completed for the next future
IterNext ==
  /\ dpc = "iter"
  /\ IF batch # <<>>
     THEN /\ cur' = Head(batch)
          /\ batch' = Tail(batch)
          /\ yielded' = yielded \cup {Head(batch)}
          /\ dpc' = "body"
          /\ UNCHANGED how
     ELSE IF yielded = TaskIds
     THEN /\ dpc' = "pool_exit"
          /\ how' = "return"
          /\ UNCHANGED <<cur, batch, yielded>>
     ELSE IF TimedOut
     THEN /\ dpc' = "pool_exit"
          /\ how' = OnTimeout
          /\ UNCHANGED <<cur, batch, yielded>>
     ELSE /\ dpc' = "wait"
          /\ UNCHANGED <<how, cur, batch, yielded>>
  /\ UNCHANGED <<shutdown, clock, inputVars, tasks, submitted, workerVars,
                 waiter, sink>>

\* mutant of Wait: results are handed over in submission order, so the loop
\* keeps waiting until the earliest unyielded task has finished
WaitInSubmissionOrder ==
  /\ dpc = "wait"
  /\ \/ deadline
     \/ \E i \in 1..Len(waiter) :
          \A u \in TaskIds : u < waiter[i] => u \in yielded
  /\ batch' = waiter
  /\ waiter' = <<>>
  /\ dpc' = "iter"
  /\ UNCHANGED <<shutdown, clock, inputVars, tasks, submitted, workerVars,
                 how, yielded, cur, sink>>

\* as_completed blocks until a future finishes or the deadline passes, then
\* collects what has finished, in finishing order
Wait ==
  /\ dpc = "wait"
  /\ waiter # <<>> \/ deadline
  /\ batch' = waiter
  /\ waiter' = <<>>
  /\ dpc' = "iter"
  /\ UNCHANGED <<shutdown, clock, inputVars, tasks, submitted, workerVars,
                 how, yielded, cur, sink>>

\* mutant of LoopBreaks: the loop never looks at the flag
LoopBreaksNever == FALSE

\* line 267: the loop stops at the first future seen with the flag set
LoopBreaks == shutdown

\* mutant of Report: the block of a result is logged one line at a time
ReportLineByLine(t) ==
  IF fut[t].kind = "result"
  THEN LET lines == IF fut[t].output = <<>> THEN <<>>
                    ELSE StrSplit(fut[t].output, NL)
       IN  [i \in 1..Len(lines) |-> LogRec("info", "result", t, lines[i])]
  ELSE <<LogRec("error", "fault", t,
                Label(tasks[t].ip) \o TxtUnexpected \o fut[t].output)>>

\* lines 270-278: what the loop body logs for a finished future
Report(t) ==
  IF fut[t].kind = "result"
  THEN IF fut[t].output # <<>>
       THEN <<LogRec("info", "result", t, fut[t].output)>>
       ELSE <<>>
  ELSE <<LogRec("error", "fault", t,
                Label(tasks[t].ip) \o TxtUnexpected \o fut[t].output)>>

\* mutant of Body: no except clause, the fault of one task leaves the loop
BodyFaultPropagates ==
  /\ dpc = "body"
  /\ IF LoopBreaks
     THEN /\ dpc' = "pool_exit"
          /\ how' = "return"
          /\ UNCHANGED sink
     ELSE IF fut[cur].kind = "exception"
     THEN /\ dpc' = "pool_exit"
          /\ how' = "Exception"
          /\ UNCHANGED sink
     ELSE /\ sink' = sink \o Report(cur)
          /\ dpc' = "iter"
          /\ UNCHANGED how
  /\ UNCHANGED <<shutdown, clock, inputVars, tasks, submitted, workerVars,
                 iterVars>>

\* mutant of Body: the flag is looked at after the result has been logged
BodyReportsBeforeCheck ==
  /\ dpc = "body"
  /\ sink' = sink \o Report(cur)
  /\ IF LoopBreaks
     THEN /\ dpc' = "pool_exit"
          /\ how' = "return"
     ELSE /\ dpc' = "iter"
          /\ UNCHANGED how
  /\ UNCHANGED <<shutdown, clock, inputVars, tasks, submitted, workerVars,
                 iterVars>>

\* lines 267-278: one pass of the loop body
Body ==
  /\ dpc = "body"
  /\ IF LoopBreaks
     THEN /\ dpc' = "pool_exit"
          /\ how' = "return"
          /\ UNCHANGED sink
     ELSE /\ sink' = sink \o Report(cur)
          /\ dpc' = "iter"
          /\ UNCHANGED how
  /\ UNCHANGED <<shutdown, clock, inputVars, tasks, submitted, workerVars,
                 iterVars>>

\* line 258: leaving the with block waits for every submitted task
PoolExit ==
  /\ dpc = "pool_exit"
  /\ AllFinished
  /\ dpc' = "left"
  /\ UNCHANGED <<shutdown, clock, inputVars, tasks, submitted, workerVars,
                 how, iterVars, sink>>

\* mutant of Signal: the handler also withdraws the queued tasks from the pool
SignalCancelsQueued ==
  /\ dpc \in {"submit", "iter", "wait", "body", "pool_exit"}
  /\ sink' = Append(sink, LogRec("info", "interrupt", 0, TxtInterrupted))
  /\ shutdown' = TRUE
  /\ dpc' = IF dpc = "pool_exit" THEN "left" ELSE "pool_exit"
  /\ how' = "SystemExit"
  /\ work_queue' = <<>>
  /\ wpc' = [t \in DOMAIN wpc |-> IF wpc[t] = "queued" THEN "done" ELSE wpc[t]]
  /\ UNCHANGED <<clock, inputVars, tasks, submitted, calls, fut, produced,
                 observed, iterVars>>

\* mutant of Signal: the handler sets the flag and returns, without sys.exit(1)
SignalNoExit ==
  /\ dpc \in {"submit", "iter", "wait", "body", "pool_exit"}
  /\ ~shutdown
  /\ sink' = Append(sink, LogRec("info", "interrupt", 0, TxtInterrupted))
  /\ shutdown' = TRUE
  /\ UNCHANGED <<dpc, how, clock, inputVars, tasks, submitted, workerVars,
                 iterVars>>

\* mutant of Signal: a second signal clears the flag again
SignalToggles ==
  /\ dpc \in {"submit", "iter", "wait", "body", "pool_exit"}
  /\ sink' = Append(sink, LogRec("info", "interrupt", 0, TxtInterrupted))
  /\ shutdown' = ~shutdown
  /\ dpc' = IF dpc = "pool_exit" THEN "left" ELSE "pool_exit"
  /\ how' = "SystemExit"
  /\ UNCHANGED <<clock, inputVars, tasks, submitted, workerVars, iterVars>>

\* lines 73-77: SIGINT / SIGTERM handled in the main thread, which then
\* unwinds with SystemExit from wherever it is
Signal ==
  /\ dpc \in {"submit", "iter", "wait", "body", "pool_exit"}
  /\ sink' = Append(sink, LogRec("info", "interrupt", 0, TxtInterrupted))
  /\ shutdown' = TRUE
  /\ dpc' = IF dpc = "pool_exit" THEN "left" ELSE "pool_exit"
  /\ how' = "SystemExit"
  /\ UNCHANGED <<clock, inputVars, tasks, submitted, workerVars, iterVars>>

\* global_timeout seconds have passed since as_completed was called
Tick ==
  /\ dpc \in {"iter", "wait", "body"}
  /\ ~deadline
  /\ deadline' = TRUE
  /\ UNCHANGED <<shutdown, inputVars, tasks, submitted, workerVars, dpc, how,
                 iterVars, sink>>

Next ==
  \/ Enter
  \/ Submit
  \/ AsCompletedStart
  \/ IterNext
  \/ Wait
  \/ Body
  \/ PoolExit
  \/ Signal
  \/ Tick
  \/ StartTask
  \/ \E t \in TaskIds : EnterExecutor(t)
  \/ \E t \in TaskIds : ProbeDone(t, DispatchProbeOutcomes)
  \/ \E t \in TaskIds :
       CommandDone(t, DispatchCommandOutcomes, DispatchTexts)

Spec == Init /\ [][Next]_vars

(***************************************************************************)
(* One direct call of _execute_ssh_command, as the unit tests make it,     *)
(* over every captured text up to MaxTextLen.                              *)
(***************************************************************************)
\* host suffixes of the direct calls
ExecSuffixes == {1, 25}

InitExec ==
  /\ InitCommon
  /\ InitHub
  /\ max_parallel_connections = 1
  /\ primary_ips = <<>>
  /\ secondary_ips = <<>>
  /\ command = CmdTemplate
  /\ \E n \in ExecSuffixes :
       tasks = <<MakeTask(primary_user, HostIp(n), command)>>
  /\ wpc = <<"entered">>
  /\ calls = <<<<>>>>
  /\ fut = <<PendingFuture>>
  /\ produced = <<<<>>>>
  /\ observed = <<NoObservation>>
  /\ dpc = "direct"

NextExec ==
  \/ EnterExecutor(1)
  \/ ProbeDone(1, ProbeOutcomes)
  \/ CommandDone(1, CommandOutcomes, TextsUpTo(MaxTextLen))

SpecExec == InitExec /\ [][NextExec]_vars

(***************************************************************************)
(* Properties.                                                             *)
(***************************************************************************)
\* what the loop body has handed to the sink: results and per-task faults
Emitted == SelectSeq(sink, LAMBDA r : r.src \in {"result", "fault"})

\* C1: during a dispatch with max_parallel = K, at most K invocations of
\* _execute_ssh_command are active at the same time in every reachable state.
C1_BoundedParallelism == Cardinality(Active) <= max_parallel_connections

\* C1 witness: two invocations active under K = 2 while a third task queues.
C1_Witness ==
  /\ max_parallel_connections = 2
  /\ Cardinality(Active) = 2
  /\ work_queue # <<>>

\* C2 (as claimed): in a run in which the flag was not set before the
\* dispatch began (here: was never set at all) and every task was handed to
\* the pool, once the call is over and the workers are done every task has
\* yielded exactly one ExecutionResult, never zero and never more.
C2_EveryTaskYieldsOneResult ==
  (~preset /\ ~shutdown /\ dpc = "left" /\ submitted = NTasks /\ AllFinished)
    => \A t \in TaskIds : Len(produced[t]) = 1

\* C3: if the flag is already set when execute_commands starts, the loop
\* hands no result (and no per-task fault) to the sink during the whole run.
C3_NoResultsWhenPreset == preset => Emitted = <<>>

\* C3 witness: a run begun with the flag set is over, with two or more tasks
\* each having returned its aborted result.
C3_Witness ==
  /\ preset
  /\ dpc = "left"
  /\ NTasks >= 2
  /\ \A t \in TaskIds : Len(produced[t]) = 1 /\ ~produced[t][1].success

(***************************************************************************)
(* Reference texts the properties compare the program's output with.       *)
(***************************************************************************)
\* positions of s that hold neither a space nor a newline
InkPositions(s) == {i \in 1..Len(s) : s[i] # " " /\ s[i] # NL}

\* s without its leading and trailing whitespace
Trimmed(s) ==
  IF InkPositions(s) = {} THEN <<>>
  ELSE LET lo == CHOOSE i \in InkPositions(s) : \A j \in InkPositions(s) : i <= j
           hi == CHOOSE i \in InkPositions(s) : \A j \in InkPositions(s) : j <= i
       IN  SubSeq(s, lo, hi)

\* where the non-empty lines of s begin
LineStarts(s) == {i \in 1..Len(s) : s[i] # NL /\ (i = 1 \/ s[i - 1] = NL)}

\* the non-empty lines of s, in order
NonEmptyLines(s) ==
  LET nth(n) == CHOOSE i \in LineStarts(s) :
                  Cardinality({j \in LineStarts(s) : j < i}) = n - 1
      stop(i) == CHOOSE j \in i..Len(s) :
                   /\ \A k \in i..j : s[k] # NL
                   /\ (j = Len(s) \/ s[j + 1] = NL)
  IN  [n \in 1..Cardinality(LineStarts(s)) |-> SubSeq(s, nth(n), stop(nth(n)))]

\* the lines of s that hold something other than whitespace, in order
InkedLines(s) ==
  SelectSeq(NonEmptyLines(s), LAMBDA line : InkPositions(line) # {})

\* '[Client <suffix> | <dotted-quad>]' of a dotted-quad address
ExpectedLabel(ip) ==
  LET dots == {i \in 1..Len(ip) : ip[i] = "."}
      last == CHOOSE i \in dots : \A j \in dots : j <= i
  IN  TxtClient \o SubSeq(ip, last + 1, Len(ip)) \o TxtBar \o ip \o <<"]">>

\* every line prefixed with the label and a space, joined with newlines
RECURSIVE LabelledBlock(_, _)
LabelledBlock(label, lines) ==
  IF lines = <<>> THEN <<>>
  ELSE label \o <<" ">> \o lines[1]
         \o (IF Len(lines) > 1
             THEN <<NL>> \o LabelledBlock(label, Tail(lines))
             ELSE <<>>)

\* decimal text of the exit statuses tried
ExpectedStatus(rc) == IF rc = 1 THEN <<"1">> ELSE <<"1", "2", "7">>

IsResult(t) == wpc[t] = "done" /\ fut[t].kind = "result"

\* C4: the command-phase invocation is made only after the probe has ended
\* with exit status zero; a task whose probe exits non-zero or times out
\* makes the probe invocation only and returns success=false with the
\* labelled message 'Could not establish SSH connection to user@host'; a
\* task whose probe succeeds makes two invocations, probe then command.
C4_ProbeBeforeCommand ==
  \A t \in TaskIds :
    /\ (\E i \in 1..Len(calls[t]) : calls[t][i] = "command")
         => calls[t] = <<"probe", "command">> /\ observed[t].probe = "ok"
    /\ observed[t].probe = "ok" => calls[t] = <<"probe", "command">>
    /\ observed[t].probe \in {"nonzero", "timeout"}
         => /\ calls[t] = <<"probe">>
            /\ IsResult(t)
            /\ ~fut[t].success
            /\ fut[t].output =
                 ExpectedLabel(tasks[t].ip) \o TxtNoConn
                   \o tasks[t].user \o <<"@">> \o tasks[t].ip

\* C4 witness: a probe that timed out ended the call after one invocation.
C4_Witness ==
  \E t \in TaskIds :
    wpc[t] = "done" /\ observed[t].probe = "timeout" /\ calls[t] = <<"probe">>

\* C5 (as claimed): when the probe process cannot be launched, the executor
\* returns the connection-failure result (success=false, 'Could not
\* establish SSH connection to user@host'), makes no command invocation and
\* raises nothing.
C5_LaunchFailureIsConnFailure ==
  \A t \in TaskIds :
    (wpc[t] = "done" /\ observed[t].probe = "oserror")
      => /\ fut[t].kind = "result"
         /\ ~fut[t].success
         /\ Contains(fut[t].output, TxtNoConn \o tasks[t].user \o <<"@">> \o tasks[t].ip)
         /\ calls[t] = <<"probe">>

\* C6: if the flag is set when the executor is entered, it returns at once
\* success=false with the label followed by 'Aborted due to shutdown', and
\* makes no remote-shell invocation, neither probe nor command.
C6_AbortOnEntry ==
  \A t \in TaskIds :
    preset =>
      /\ calls[t] = <<>>
      /\ wpc[t] = "done" =>
           /\ fut[t].kind = "result"
           /\ ~fut[t].success
           /\ fut[t].output = ExpectedLabel(tasks[t].ip) \o TxtAborted

\* C6 witness: a call entered with the flag set has returned.
C6_Witness == \E t \in TaskIds : preset /\ wpc[t] = "done"

\* C7: after a successful probe, a command timeout yields success=false with
\* 'Command timed out'; a non-zero exit yields success=false with a message
\* holding the exit status and the captured error text (surrounding
\* whitespace aside), or 'Unknown error' when stderr is empty; the executor
\* raises in neither case.
C7_CommandFailures ==
  \A t \in TaskIds :
    (wpc[t] = "done" /\ observed[t].probe = "ok") =>
      /\ observed[t].cmd = "timeout" =>
           /\ fut[t].kind = "result"
           /\ ~fut[t].success
           /\ fut[t].output = ExpectedLabel(tasks[t].ip) \o TxtTimedOut
      /\ observed[t].cmd = "nonzero" =>
           /\ fut[t].kind = "result"
           /\ ~fut[t].success
           /\ Contains(fut[t].output, TxtFailed \o ExpectedStatus(observed[t].rc) \o <<NL>>)
           /\ IF observed[t].stderr = <<>>
              THEN Contains(fut[t].output, TxtOutput \o TxtUnknown)
              ELSE /\ Contains(fut[t].output, TxtOutput \o Trimmed(observed[t].stderr))
                   /\ ~Contains(fut[t].output, TxtUnknown)

\* C7 witness: a command that exited 127 with nothing on stderr has returned.
C7_Witness ==
  \E t \in TaskIds :
    /\ wpc[t] = "done"
    /\ observed[t].cmd = "nonzero"
    /\ observed[t].rc = 127
    /\ observed[t].stderr = <<>>

C9_EveryLineLabelled ==
  \A t \in TaskIds :
    IsResult(t) =>
      \A i \in 1..Len(NonEmptyLines(fut[t].output)) :
        StartsWith(NonEmptyLines(fut[t].output)[i], ExpectedLabel(tasks[t].ip))

\* the global timeout has ended the loop
TimeoutSurfaced == how = "TimeoutError"

Stragglers == {t \in TaskIds : wpc[t] \in {"queued", "entered", "probe", "command"}}

\* C11 (as claimed): when the global timeout has fired while a task is still
\* running or queued, execute_commands stops waiting: it can end, handing
\* the TimeoutError to its caller, without the stragglers' executor
\* invocations having finished first.
C11_TimeoutStopsWaiting ==
  (TimeoutSurfaced /\ dpc = "pool_exit" /\ Stragglers # {}) => ENABLED PoolExit

\* an interrupt arrived while the dispatch was in progress
Interrupted == shutdown /\ ~preset

\* C12 (as claimed): once shutdown is signaled during a dispatch, a task that
\* has not started yet is never started and produces no result.
C12_UnstartedTasksSkippedAsClaimed ==
  [][Interrupted =>
       \A t \in TaskIds :
         wpc[t] \in {"new", "queued"} =>
           /\ wpc'[t] = wpc[t]
           /\ produced'[t] = <<>>]_vars

\* C12 (amended): from the step that signals shutdown during a dispatch
\* onwards, nothing more is submitted and nothing more is emitted; a running task is not killed,
\* its call ends only when its own subprocess has ended; a task never
\* submitted is never run; a task submitted but not started stays in the
\* pool until a worker takes it, then makes no remote-shell invocation and
\* returns the 'Aborted due to shutdown' result.
C12_ShutdownMidRun ==
  [][(shutdown' /\ ~preset) =>
       /\ submitted' = submitted
       /\ Emitted' = Emitted
       /\ \A t \in TaskIds :
            /\ wpc[t] = "new" => wpc'[t] = "new" /\ produced'[t] = <<>>
            /\ wpc[t] = "queued" => wpc'[t] \in {"queued", "entered"}
            /\ wpc[t] \in {"queued", "entered"} =>
                 /\ calls'[t] = <<>>
                 /\ wpc'[t] \in {"queued", "entered", "done"}
                 /\ wpc'[t] = "done" =>
                      /\ fut'[t].kind = "result"
                      /\ ~fut'[t].success
                      /\ fut'[t].output = ExpectedLabel(tasks[t].ip) \o TxtAborted
                      /\ Len(produced'[t]) = 1
            /\ (wpc[t] \in {"probe", "command"} /\ wpc'[t] # wpc[t]) =>
                 observed'[t] # observed[t]]_vars

\* C12 witness: after an interrupt during the loop the call is over; one
\* task that was running has ended by itself, one that was queued has
\* returned the aborted result, and neither was emitted.
C12_Witness ==
  /\ Interrupted
  /\ dpc = "left"
  /\ Emitted = <<>>
  /\ \E t, u \in TaskIds :
       /\ wpc[t] = "done" /\ observed[t].cmd = "ok"
       /\ wpc[u] = "done" /\ calls[u] = <<>> /\ Len(produced[u]) = 1

(***************************************************************************)
(* Scheduling: every thread that can take a step eventually takes one, and *)
(* every subprocess.run ends (it is given timeout=connection_timeout).     *)
(* Nothing forces the global timeout to elapse or a signal to arrive.      *)
(***************************************************************************)
\* the next step of the executor call of task t
WorkerStep(t) ==
  /\ t \in TaskIds
  /\ \/ EnterExecutor(t)
     \/ ProbeDone(t, DispatchProbeOutcomes)
     \/ CommandDone(t, DispatchCommandOutcomes, DispatchTexts)

WorkerFairness ==
  /\ WF_vars(StartTask)
  /\ \A t \in 1..MaxTasks : WF_vars(WorkerStep(t))

MainFairness ==
  WF_vars(Enter \/ Submit \/ AsCompletedStart \/ IterNext \/ Wait \/ Body
            \/ PoolExit)

\* a dispatch of one or two hosts, begun with the flag clear
InitLive ==
  /\ InitCommon
  /\ InitHub
  /\ ~shutdown
  /\ max_parallel_connections \in 1..MaxParallel
  /\ \E np \in 0..MaxLiveTasks : \E ns \in 0..MaxSecondary :
       /\ np + ns \in 1..MaxLiveTasks
       /\ primary_ips = [i \in 1..np |-> HostIp(i)]
       /\ secondary_ips = [i \in 1..ns |-> HostIp(np + i)]
  /\ command = CmdTemplate
  /\ tasks = <<>>
  /\ wpc = <<>>
  /\ calls = <<>>
  /\ fut = <<>>
  /\ produced = <<>>
  /\ observed = <<>>
  /\ dpc = "entry"

SpecLive == InitLive /\ [][Next]_vars /\ WorkerFairness /\ MainFairness

\* the handler has run at least once
SignalReceived == \E i \in 1..Len(sink) : sink[i].src = "interrupt"

\* status the process ends with once execute_commands is left: sys.exit(1)
\* of the handler and an uncaught TimeoutError both end it with 1
ExitStatus == IF how = "return" THEN 0 ELSE 1

\* the SystemExit of the handler has unwound execute_commands; nothing in
\* run() or main() catches it, so the process has ended
ExitedOnInterrupt == dpc = "left" /\ how = "SystemExit"

\* C13: after an interrupt at any point of a dispatch the process eventually
\* exits with a non-zero status, and it gets there whether or not the global
\* timeout has elapsed: the timeout's state is the same at the exit as at
\* the interrupt.
C13_InterruptExits ==
  /\ [](SignalReceived /\ dpc = "left" => ExitedOnInterrupt /\ ExitStatus # 0)
  /\ \A d \in BOOLEAN :
       (SignalReceived /\ deadline = d)
         ~> (ExitedOnInterrupt /\ ExitStatus # 0 /\ deadline = d)

\* C13 witness: the process has exited on an interrupt that found a task
\* running, and the global timeout never elapsed.
C13_Witness ==
  /\ ExitedOnInterrupt
  /\ ~deadline
  /\ ~preset
  /\ \E t \in TaskIds : wpc[t] = "done" /\ calls[t] # <<>>

\* remote-shell subprocesses started by subprocess.run and not yet ended
RunningSubprocesses == {t \in TaskIds : wpc[t] \in {"probe", "command"}}

\* C14 (as claimed): in every state in which the process has exited
\* following an interrupt, no remote-shell subprocess spawned by a task of
\* the run is still running.
C14_NoOrphanedSubprocess == ExitedOnInterrupt => RunningSubprocesses = {}

\* the loop is blocked inside as_completed
Blocked == dpc = "wait" /\ ~ENABLED Wait

\* futures as_completed holds ready for the loop
Ready == {batch[i] : i \in 1..Len(batch)} \cup {waiter[i] : i \in 1..Len(waiter)}

\* C15: results stream in completion order: only completed tasks are handed
\* to the loop, and whenever the loop is blocked every completed task has
\* already been handed over, so a completed task's result never waits for a
\* task that was submitted earlier and has not completed.
C15_CompletionOrder ==
  /\ \A t \in yielded \cup Ready : wpc[t] = "done"
  /\ Blocked => \A t \in TaskIds : wpc[t] = "done" => t \in yielded

\* C15 witness: the result of a later task has been emitted while a task
\* submitted before it is still running.
C15_Witness ==
  \E t, u \in TaskIds :
    /\ u < t
    /\ wpc[u] \in {"probe", "command"}
    /\ \E i \in 1..Len(Emitted) : Emitted[i].task = t

\* what the loop has handed to the sink for task t
ReportsOf(t) == SelectSeq(Emitted, LAMBDA r : r.task = t)

\* the task ended in one of the per-task errors
TaskFailed(t) ==
  \/ observed[t].probe \in {"nonzero", "timeout", "oserror"}
  \/ observed[t].cmd \in {"nonzero", "timeout", "oserror"}

Digits == {DigitChars[i] : i \in 1..10}

\* str.isdigit(), for the characters of the alphabets used here
IsDigitStr(s) == s # <<>> /\ \A i \in 1..Len(s) : s[i] \in Digits

DigitVal(c) == CHOOSE d \in 0..9 : DigitChars[d + 1] = c

RECURSIVE StrToNat(_)
StrToNat(s) ==
  IF s = <<>> THEN 0
  ELSE StrToNat(SubSeq(s, 1, Len(s) - 1)) * 10 + DigitVal(s[Len(s)])

\* int(s): surrounding whitespace is dropped, then an optional sign, then
\* digits; anything else raises ValueError (underscores between digits,
\* which int() also accepts, are not in the alphabets used here)
PyInt(s) ==
  LET t == StrStrip(s)
      signed == t # <<>> /\ Head(t) \in {"+", "-"}
      digits == IF signed THEN Tail(t) ELSE t
  IN  IF IsDigitStr(digits)
      THEN [ok |-> TRUE,
            val |-> IF signed /\ Head(t) = "-"
                    THEN 0 - StrToNat(digits) ELSE StrToNat(digits)]
      ELSE [ok |-> FALSE, val |-> 0]

\* str(i)
PyStr(i) == IF i < 0 THEN <<"-">> \o IntToStr(0 - i) ELSE IntToStr(i)

\* lines 118-129
expand_range(range_str) ==
  LET dashes == {i \in 1..Len(range_str) : range_str[i] = "-"}
      first == CHOOSE i \in dashes : \A j \in dashes : i <= j
      start_num == PyInt(SubSeq(range_str, 1, first - 1))
      end_num == PyInt(SubSeq(range_str, first + 1, Len(range_str)))
  IN  IF /\ dashes # {}
         /\ start_num.ok
         /\ end_num.ok
         /\ start_num.val <= end_num.val
      THEN [k \in 1..(end_num.val - start_num.val + 1) |->
              PyStr(start_num.val + k - 1)]
      ELSE IF IsDigitStr(range_str) THEN <<range_str>> ELSE <<>>

\* str.split() without a separator: the runs of characters that are not
\* whitespace
RECURSIVE PySplit(_)
PySplit(s) ==
  LET t == LStrip(s)
      stops == {i \in 1..Len(t) : IsSpace(t[i])}
      stop == IF stops = {} THEN Len(t) + 1
              ELSE CHOOSE i \in stops : \A j \in stops : i <= j
  IN  IF t = <<>> THEN <<>>
      ELSE <<SubSeq(t, 1, stop - 1)>> \o PySplit(SubSeq(t, stop, Len(t)))

\* allowed.extend(self._expand_range(range_str)) for each of ranges
RECURSIVE ExtendAll(_)
ExtendAll(ranges) ==
  IF ranges = <<>> THEN <<>>
  ELSE expand_range(Head(ranges)) \o ExtendAll(Tail(ranges))

\* what a call gave: a value returned, or an exception raised
Returns(v) == [raised |-> FALSE, val |-> v]

Raises == [raised |-> TRUE, val |-> <<>>]

\* lines 108-116: a str has split(), a list has not (AttributeError)
parse_allowed_ips(allowed_ips_str) ==
  IF allowed_ips_str.type = "str"
  THEN Returns(ExtendAll(PySplit(allowed_ips_str.value)))
  ELSE Raises

\* x in a list
InList(x, list) == \E i \in 1..Len(list) : list[i] = x

\* mutant of validate_ip_suffix: the allow-list is not consulted
validate_ip_suffix_digits_only(ip_suffix) == IsDigitStr(ip_suffix)

\* lines 131-133
validate_ip_suffix(ip_suffix) ==
  IsDigitStr(ip_suffix) /\ InList(ip_suffix, allowed_ips)

TxtInvalidSuffix ==
  <<"I", "n", "v", "a", "l", "i", "d", " ", "o", "r", " ", "d", "i", "s",
    "a", "l", "l", "o", "w", "e", "d", " ", "I", "P", " ", "s", "u", "f",
    "f", "i", "x", " ", "'">>
TxtDuplicate ==
  <<"S", "k", "i", "p", "p", "i", "n", "g", " ", "d", "u", "p", "l", "i",
    "c", "a", "t", "e", " ", "I", "P", " ", "s", "u", "f", "f", "i", "x",
    " ", "'">>

\* mutant of ParseIpsLoop: a suffix already seen is added again
RECURSIVE ParseIpsLoopKeepsDuplicates(_, _)
ParseIpsLoopKeepsDuplicates(rest, st) ==
  IF rest = <<>> THEN st
  ELSE LET ip_suffix == Head(rest)
       IN  ParseIpsLoopKeepsDuplicates(Tail(rest),
             IF ~validate_ip_suffix(ip_suffix)
             THEN [st EXCEPT !.errors =
                     Append(@, TxtInvalidSuffix \o ip_suffix \o <<"'">>)]
             ELSE [st EXCEPT !.seen = @ \cup {ip_suffix},
                             !.valid_ips =
                               Append(@, ip_prefix \o <<".">> \o ip_suffix)])

\* lines 154-164: the loop of _parse_ips over the suffixes still to see
RECURSIVE ParseIpsLoop(_, _)
ParseIpsLoop(rest, st) ==
  IF rest = <<>> THEN st
  ELSE LET ip_suffix == Head(rest)
       IN  ParseIpsLoop(Tail(rest),
             IF ~validate_ip_suffix(ip_suffix)
             THEN [st EXCEPT !.errors =
                     Append(@, TxtInvalidSuffix \o ip_suffix \o <<"'">>)]
             ELSE IF ip_suffix \in st.seen
             THEN [st EXCEPT !.warnings =
                     Append(@, TxtDuplicate \o ip_suffix \o <<"'">>)]
             ELSE [st EXCEPT !.seen = @ \cup {ip_suffix},
                             !.valid_ips =
                               Append(@, ip_prefix \o <<".">> \o ip_suffix)])

\* lines 148-166
parse_ips(ip_suffixes) ==
  ParseIpsLoop(ip_suffixes,
               [valid_ips |-> <<>>, errors |-> <<>>, seen |-> {},
                warnings |-> <<>>])

\* the warnings _parse_ips hands to the logger
WarningRecs(texts) ==
  [i \in 1..Len(texts) |-> LogRec("warning", "warn", 0, texts[i])]

\* prefix.rstrip('.')
RECURSIVE RStripDots(_)
RStripDots(p) ==
  IF p # <<>> /\ p[Len(p)] = "." THEN RStripDots(SubSeq(p, 1, Len(p) - 1))
  ELSE p

\* re.match(r'^(\d{1,3}\.){2}\d{1,3}$', prefix): '$' also matches before
\* one final newline
MatchesPrefixPattern(p) ==
  LET q == IF p # <<>> /\ p[Len(p)] = NL THEN SubSeq(p, 1, Len(p) - 1) ELSE p
      parts == StrSplit(q, ".")
  IN  /\ Len(parts) = 3
      /\ \A i \in 1..3 : IsDigitStr(parts[i]) /\ Len(parts[i]) <= 3

\* lines 135-146
validate_ip_prefix(prefix) ==
  LET p == RStripDots(prefix)
      octets == StrSplit(p, ".")
  IN  /\ MatchesPrefixPattern(p)
      /\ \A i \in 1..Len(octets) :
           PyInt(octets[i]).val >= 0 /\ PyInt(octets[i]).val <= 255

(***************************************************************************)
(* One method of the hub called directly, as the unit tests do.            *)
(***************************************************************************)
TokenAlphabet == {"0", "1", "2", "-", "+", "a"}

Tokens == UNION {[1..k -> TokenAlphabet] : k \in 0..MaxTokenLen}

\* suffixes given on the command line: allowed, numeric but not allowed,
\* not numeric, empty
SuffixPool == {<<"1">>, <<"2">>, <<"9", "9">>, <<"1", "a">>, <<>>}

SuffixLists == UNION {[1..k -> SuffixPool] : k \in 0..MaxSuffixes}

\* allow-lists: the constructor's, and ALLOWED_IPS="1-3" of a config file
AllowLists == {DefaultAllowedIps, expand_range(<<"1", "-", "3">>)}

\* prefixes: the constructor's, and IP_PREFIX=10.0.0 of a config file
Prefixes == {default_ip_prefix, <<"1", "0", ".", "0", ".", "0">>}

\* characters of a raw prefix: digits on both sides of 255, the separator
\* and a line end
PrefixAlphabet == {"2", "5", "6", ".", NL}

\* the prefixes of test_validate_ip_prefix
PrefixExamples ==
  {<<"1", "9", "2", ".", "1", "6", "8", ".", "1">>,
   <<"1", "9", "2", ".", "1", "6", "8", ".", "1", ".">>,
   <<"1", "0", ".", "0", ".", "0">>,
   <<"1", "7", "2", ".", "1", "6", ".", "1", "0">>,
   <<"1", "9", "2", ".", "1", "6", "8">>,
   <<"1", "9", "2", ".", "1", "6", "8", ".", "1", ".", "1">>,
   <<"a", "b", "c", ".", "d", "e", "f", ".", "g", "h", "i">>,
   <<"2", "5", "6", ".", "1", ".", "1">>,
   <<"1", ".", "2", "5", "6", ".", "1">>,
   <<"1", ".", "1", ".", "2", "5", "6">>}

RawPrefixes ==
  PrefixExamples \cup UNION {[1..k -> PrefixAlphabet] : k \in 0..MaxPrefixLen}

\* characters of an ALLOWED_IPS value
AllowedAlphabet == {"1", "2", "3", "-", " "}

\* ALLOWED_IPS values of a config file, as _load_config hands them over
AllowedStrings ==
  {[type |-> "str", value |-> v] :
     v \in UNION {[1..k -> AllowedAlphabet] : k \in 0..MaxAllowedLen}}

\* the tokens of test_parse_allowed_ips
AllowedTokenPool ==
  {<<"1", "-", "3">>, <<"5">>, <<"7", "-", "9">>, <<"2">>}

\* lists of tokens, as test_parse_allowed_ips hands them over
AllowedLists ==
  {[type |-> "list", value |-> v] :
     v \in UNION {[1..k -> AllowedTokenPool] : k \in 0..MaxAllowedTokens}}

\* what the texts handed to _substitute_variables are made of
Pieces ==
  {CLIENT_NUM, SubSeq(CLIENT_NUM, 1, Len(CLIENT_NUM) - 1),
   <<"M">>, <<"$">>, <<"a">>, <<"1">>}

\* the pieces one after the other
RECURSIVE Concat(_)
Concat(parts) ==
  IF parts = <<>> THEN <<>> ELSE Head(parts) \o Concat(Tail(parts))

\* user templates and command templates
SubstitutionTexts ==
  {Concat(parts) : parts \in UNION {[1..k -> Pieces] : k \in 0..MaxPieces}}

\* ip.split('.')[-1] of the hosts of a task list
ClientNums == {ClientNum(HostIp(n)) : n \in {1, 25, 254}}

\* no dispatch in progress
InitIdle ==
  /\ InitCommon
  /\ ~shutdown
  /\ max_parallel_connections = 1
  /\ primary_ips = <<>>
  /\ secondary_ips = <<>>
  /\ command = <<>>
  /\ tasks = <<>>
  /\ wpc = <<>>
  /\ calls = <<>>
  /\ fut = <<>>
  /\ produced = <<>>
  /\ observed = <<>>

InitUnit ==
  /\ InitIdle
  /\ InstallerIdle
  /\ ssh_client = "ok"
  /\ parsed_args = NoArgs
  /\ ops = <<>>
  /\ ret = <<>>
  /\ dpc = "call"
  /\ \/ /\ arg \in {[fn |-> "expand_range", val |-> t] : t \in Tokens}
        /\ ip_prefix = default_ip_prefix
        /\ allowed_ips = DefaultAllowedIps
     \/ /\ arg \in {[fn |-> "parse_ips", val |-> l] : l \in SuffixLists}
        /\ ip_prefix \in Prefixes
        /\ allowed_ips \in AllowLists
     \/ /\ arg \in {[fn |-> "validate_ip_prefix", val |-> p] : p \in RawPrefixes}
        /\ ip_prefix = default_ip_prefix
        /\ allowed_ips = DefaultAllowedIps
     \/ /\ arg \in {[fn |-> "parse_allowed_ips", val |-> a] :
                      a \in AllowedStrings \cup AllowedLists}
        /\ ip_prefix = default_ip_prefix
        /\ allowed_ips = DefaultAllowedIps
     \/ /\ arg \in {[fn |-> "substitute_variables",
                      val |-> [text |-> t, client_num |-> n]] :
                      t \in SubstitutionTexts, n \in ClientNums}
        /\ ip_prefix = default_ip_prefix
        /\ allowed_ips = DefaultAllowedIps

dispatchVars ==
  <<shutdown, preset, deadline, max_parallel_connections, primary_ips,
    secondary_ips, primary_user, secondary_user, command, tasks, submitted,
    work_queue, wpc, calls, fut, produced, observed, how, waiter, batch,
    yielded, cur>>

\* hub._expand_range(range_str)
ExpandRangeCall ==
  /\ dpc = "call"
  /\ arg.fn = "expand_range"
  /\ ret' = expand_range(arg.val)
  /\ dpc' = "returned"
  /\ UNCHANGED <<dispatchVars, installVars, sink, ssh_client, parsed_args,
                 ip_prefix, allowed_ips, ops, arg>>

\* hub._parse_ips(ip_suffixes)
ParseIpsCall ==
  /\ dpc = "call"
  /\ arg.fn = "parse_ips"
  /\ LET r == parse_ips(arg.val)
     IN  /\ ret' = [valid_ips |-> r.valid_ips, errors |-> r.errors]
         /\ sink' = sink \o WarningRecs(r.warnings)
  /\ dpc' = "returned"
  /\ UNCHANGED <<dispatchVars, installVars, ssh_client, parsed_args,
                 ip_prefix, allowed_ips, ops, arg>>

\* hub._validate_ip_prefix(prefix)
ValidateIpPrefixCall ==
  /\ dpc = "call"
  /\ arg.fn = "validate_ip_prefix"
  /\ ret' = validate_ip_prefix(arg.val)
  /\ dpc' = "returned"
  /\ UNCHANGED <<dispatchVars, installVars, sink, ssh_client, parsed_args,
                 ip_prefix, allowed_ips, ops, arg>>

\* hub._parse_allowed_ips(allowed_ips_str)
ParseAllowedIpsCall ==
  /\ dpc = "call"
  /\ arg.fn = "parse_allowed_ips"
  /\ ret' = parse_allowed_ips(arg.val)
  /\ dpc' = "returned"
  /\ UNCHANGED <<dispatchVars, installVars, sink, ssh_client, parsed_args,
                 ip_prefix, allowed_ips, ops, arg>>

\* hub._substitute_variables(text, client_num)
SubstituteVariablesCall ==
  /\ dpc = "call"
  /\ arg.fn = "substitute_variables"
  /\ ret' = substitute_variables(arg.val.text, arg.val.client_num)
  /\ dpc' = "returned"
  /\ UNCHANGED <<dispatchVars, installVars, sink, ssh_client, parsed_args,
                 ip_prefix, allowed_ips, ops, arg>>

NextUnit ==
  \/ ExpandRangeCall
  \/ ParseIpsCall
  \/ ValidateIpPrefixCall
  \/ ParseAllowedIpsCall
  \/ SubstituteVariablesCall

SpecUnit == InitUnit /\ [][NextUnit]_vars

Returned(fn) == dpc = "returned" /\ arg.fn = fn

(***************************************************************************)
(* Reference notions for the parsing claims.                               *)
(***************************************************************************)
\* a non-empty run of the characters 0..9
AllDigits(s) ==
  /\ Len(s) >= 1
  /\ \A i \in 1..Len(s) :
       s[i] \in {"0", "1", "2", "3", "4", "5", "6", "7", "8", "9"}

RECURSIVE Pow10(_)
Pow10(n) == IF n = 0 THEN 1 ELSE 10 * Pow10(n - 1)

\* the number a run of digits denotes
RECURSIVE DecimalValue(_)
DecimalValue(s) ==
  IF s = <<>> THEN 0
  ELSE (CHOOSE d \in 0..9 : IntToStr(d) = <<Head(s)>>) * Pow10(Len(s) - 1)
         + DecimalValue(Tail(s))

\* s is the decimal string of n: digits, no leading zero
IsDecimalOf(s, n) ==
  AllDigits(s) /\ (Len(s) = 1 \/ s[1] # "0") /\ DecimalValue(s) = n

\* 'digits-digits': where the dash of such a token stands, else 0
RangeDash(tok) ==
  IF \E i \in 2..(Len(tok) - 1) :
       /\ tok[i] = "-"
       /\ AllDigits(SubSeq(tok, 1, i - 1))
       /\ AllDigits(SubSeq(tok, i + 1, Len(tok)))
  THEN CHOOSE i \in 2..(Len(tok) - 1) :
         /\ tok[i] = "-"
         /\ AllDigits(SubSeq(tok, 1, i - 1))
         /\ AllDigits(SubSeq(tok, i + 1, Len(tok)))
  ELSE 0

\* C19 (as claimed): a token 'A-B' of two non-negative integers with A <= B
\* expands to exactly the decimal strings of A, A+1, ..., B in ascending
\* order; a token with A > B and every non-numeric or malformed token
\* expands to nothing; an all-digits token is returned as it is, as a single
\* element.
C19_RangeExpansion ==
  Returned("expand_range") =>
    LET tok == arg.val
        i == RangeDash(tok)
        A == DecimalValue(SubSeq(tok, 1, i - 1))
        B == DecimalValue(SubSeq(tok, i + 1, Len(tok)))
    IN  IF i # 0
        THEN IF A <= B
             THEN /\ Len(ret) = B - A + 1
                  /\ \A k \in 1..Len(ret) : IsDecimalOf(ret[k], A + k - 1)
             ELSE ret = <<>>
        ELSE IF AllDigits(tok) THEN ret = <<tok>> ELSE ret = <<>>

\* the suffix is not all-digits or not in the allow-list
Excluded(s) == ~AllDigits(s) \/ s \notin {allowed_ips[i] : i \in 1..Len(allowed_ips)}

\* position of the first occurrence of x in a list that holds it
FirstIndex(x, list) ==
  CHOOSE i \in 1..Len(list) :
    list[i] = x /\ \A j \in 1..(i - 1) : list[j] # x

\* C20: _parse_ips returns for every list of suffixes; it records exactly
\* one error string per excluded suffix (not all-digits, or not in the
\* allow-list), in input order and naming the suffix; the addresses it
\* returns are '<prefix>.<suffix>' of exactly the suffixes not excluded,
\* each once, in the order in which they first occur; no excluded suffix
\* yields an address.
C20_ParseIps ==
  Returned("parse_ips") =>
    LET input == arg.val
        bad == SelectSeq(input, Excluded)
        good == {input[i] : i \in {j \in 1..Len(input) : ~Excluded(input[j])}}
        addr(x) == ip_prefix \o <<".">> \o x
    IN  /\ Len(ret.errors) = Len(bad)
        /\ \A i \in 1..Len(bad) :
             ret.errors[i] = TxtInvalidSuffix \o bad[i] \o <<"'">>
        /\ {ret.valid_ips[i] : i \in 1..Len(ret.valid_ips)} = {addr(x) : x \in good}
        /\ Len(ret.valid_ips) = Cardinality(good)
        /\ \A x, y \in good :
             FirstIndex(x, input) < FirstIndex(y, input)
               => FirstIndex(addr(x), ret.valid_ips)
                    < FirstIndex(addr(y), ret.valid_ips)

\* C20 witness: a list holding an allowed suffix, a numeric suffix outside
\* the allow-list and a non-numeric one gave one address and two errors.
C20_Witness ==
  /\ Returned("parse_ips")
  /\ arg.val = <<<<"9", "9">>, <<"2">>, <<"1", "a">>>>
  /\ Len(ret.valid_ips) = 1
  /\ Len(ret.errors) = 2

(***************************************************************************)
(* run(): the pre-flight checks, up to the call of execute_commands.       *)
(***************************************************************************)
TxtNoSsh ==
  <<"E", "r", "r", "o", "r", ":", " ", "S", "S", "H", " ", "c", "l", "i",
    "e", "n", "t", " ", "i", "s", " ", "n", "o", "t", " ", "i", "n", "s",
    "t", "a", "l", "l", "e", "d">>
TxtBadPrefix ==
  <<"E", "r", "r", "o", "r", ":", " ", "I", "n", "v", "a", "l", "i", "d",
    " ", "I", "P", " ", "p", "r", "e", "f", "i", "x", " ", "f", "o", "r",
    "m", "a", "t", ".", " ", "U", "s", "e", " ", "f", "o", "r", "m", "a",
    "t", ":", " ", "X", "X", "X", ".", "X", "X", "X", ".", "X", "X", "X",
    " ", "(", "0", "-", "2", "5", "5", ")">>
TxtNoValidIps ==
  <<"E", "r", "r", "o", "r", ":", " ", "N", "o", " ", "v", "a", "l", "i",
    "d", " ", "I", "P", " ", "a", "d", "d", "r", "e", "s", "s", "e", "s",
    " ", "f", "o", "u", "n", "d">>
TxtErrNoCommand ==
  <<"E", "r", "r", "o", "r", ":", " ", "N", "o", " ", "c", "o", "m", "m",
    "a", "n", "d", " ", "s", "p", "e", "c", "i", "f", "i", "e", "d">>
TxtError == <<"E", "r", "r", "o", "r", ":", " ">>

\* mutant of check_ssh: the client is taken to be there without looking
check_ssh_assumed(client) == "true"

\* lines 168-175: CalledProcessError and FileNotFoundError give False, any
\* other failure to launch the client is raised
check_ssh(client) ==
  CASE client = "ok" -> "true"
    [] client \in {"missing", "nonzero"} -> "false"
    [] OTHER -> "raise"

RunRec(text) == LogRec("error", "run", 0, text)

\* the errors of one validation pass, as run() logs them
ErrorRecs(errors) == [i \in 1..Len(errors) |-> RunRec(TxtError \o errors[i])]

\* sys.exit(1), or an exception nothing catches
RunExit(kind) ==
  /\ dpc' = "exited"
  /\ how' = kind

runLocals ==
  <<shutdown, preset, deadline, max_parallel_connections, tasks, submitted,
    work_queue, wpc, calls, fut, produced, observed, waiter, batch, yielded,
    cur, ssh_client, parsed_args, allowed_ips, arg, ret, installVars>>

\* lines 282-285
RunCheckSsh ==
  /\ dpc = "run"
  /\ ops' = Append(ops, "check_ssh")
  /\ CASE check_ssh(ssh_client) = "true" ->
             /\ dpc' = "run_parse"
             /\ UNCHANGED <<how, sink>>
        [] check_ssh(ssh_client) = "false" ->
             /\ sink' = Append(sink, RunRec(TxtNoSsh))
             /\ RunExit("SystemExit")
        [] OTHER ->
             /\ RunExit("OSError")
             /\ UNCHANGED sink
  /\ UNCHANGED <<runLocals, ip_prefix, primary_ips, secondary_ips,
                 primary_user, secondary_user, command>>

\* lines 288-289: parsed_args holds what parse_args returns for the
\* arguments given (arguments argparse itself rejects are not modelled)
RunParseArgs ==
  /\ dpc = "run_parse"
  /\ ops' = Append(ops, "parse_args")
  /\ dpc' = "run_prefix"
  /\ UNCHANGED <<runLocals, how, sink, ip_prefix, primary_ips, secondary_ips,
                 primary_user, secondary_user, command>>

\* lines 292-297
RunIpPrefix ==
  /\ dpc = "run_prefix"
  /\ IF parsed_args.ip_prefix = <<>>
     THEN /\ dpc' = "run_primary"
          /\ UNCHANGED <<how, sink, ip_prefix, ops>>
     ELSE /\ ops' = Append(ops, "validate_ip_prefix")
          /\ IF validate_ip_prefix(RStripDots(parsed_args.ip_prefix))
             THEN /\ ip_prefix' = RStripDots(parsed_args.ip_prefix)
                  /\ dpc' = "run_primary"
                  /\ UNCHANGED <<how, sink>>
             ELSE /\ sink' = Append(sink, RunRec(TxtBadPrefix))
                  /\ RunExit("SystemExit")
                  /\ UNCHANGED ip_prefix
  /\ UNCHANGED <<runLocals, primary_ips, secondary_ips, primary_user,
                 secondary_user, command>>

\* mutant of RunPrimary: every primary suffix is combined with the prefix
\* unchecked
RunPrimaryUnchecked ==
  /\ dpc = "run_primary"
  /\ IF parsed_args.primary = <<>>
     THEN UNCHANGED <<primary_ips, sink, ops>>
     ELSE /\ ops' = Append(ops, "parse_ips")
          /\ sink' = sink
          /\ primary_ips' =
               [i \in 1..Len(parsed_args.primary) |->
                  ip_prefix \o <<".">> \o parsed_args.primary[i]]
  /\ dpc' = "run_secondary"
  /\ UNCHANGED <<runLocals, how, ip_prefix, secondary_ips, primary_user,
                 secondary_user, command>>

\* lines 300-305
RunPrimary ==
  /\ dpc = "run_primary"
  /\ IF parsed_args.primary = <<>>
     THEN UNCHANGED <<primary_ips, sink, ops>>
     ELSE LET r == parse_ips(parsed_args.primary)
          IN  /\ ops' = Append(ops, "parse_ips")
              /\ sink' = sink \o WarningRecs(r.warnings) \o ErrorRecs(r.errors)
              /\ primary_ips' = r.valid_ips
  /\ dpc' = "run_secondary"
  /\ UNCHANGED <<runLocals, how, ip_prefix, secondary_ips, primary_user,
                 secondary_user, command>>

\* lines 308-313
RunSecondary ==
  /\ dpc = "run_secondary"
  /\ IF parsed_args.secondary = <<>>
     THEN UNCHANGED <<secondary_ips, sink, ops>>
     ELSE LET r == parse_ips(parsed_args.secondary)
          IN  /\ ops' = Append(ops, "parse_ips")
              /\ sink' = sink \o WarningRecs(r.warnings) \o ErrorRecs(r.errors)
              /\ secondary_ips' = r.valid_ips
  /\ dpc' = "run_validate"
  /\ UNCHANGED <<runLocals, how, ip_prefix, primary_ips, primary_user,
                 secondary_user, command>>

\* mutant of RunValidate: 'or' for 'and', one empty group is already fatal
RunValidateEitherEmpty ==
  /\ dpc = "run_validate"
  /\ IF primary_ips = <<>> \/ secondary_ips = <<>>
     THEN /\ sink' = Append(sink, RunRec(TxtNoValidIps))
          /\ RunExit("SystemExit")
          /\ UNCHANGED <<ops, primary_user, secondary_user, command>>
     ELSE IF parsed_args.cmd = <<>>
     THEN /\ sink' = Append(sink, RunRec(TxtErrNoCommand))
          /\ RunExit("SystemExit")
          /\ UNCHANGED <<ops, primary_user, secondary_user, command>>
     ELSE /\ ops' = Append(ops, "execute_commands")
          /\ primary_user' = parsed_args.puser
          /\ secondary_user' = parsed_args.suser
          /\ command' = parsed_args.cmd
          /\ dpc' = "entry"
          /\ UNCHANGED <<how, sink>>
  /\ UNCHANGED <<runLocals, ip_prefix, primary_ips, secondary_ips>>

\* lines 316-331: the last two checks, then the call of execute_commands
RunValidate ==
  /\ dpc = "run_validate"
  /\ IF primary_ips = <<>> /\ secondary_ips = <<>>
     THEN /\ sink' = Append(sink, RunRec(TxtNoValidIps))
          /\ RunExit("SystemExit")
          /\ UNCHANGED <<ops, primary_user, secondary_user, command>>
     ELSE IF parsed_args.cmd = <<>>
     THEN /\ sink' = Append(sink, RunRec(TxtErrNoCommand))
          /\ RunExit("SystemExit")
          /\ UNCHANGED <<ops, primary_user, secondary_user, command>>
     ELSE /\ ops' = Append(ops, "execute_commands")
          /\ primary_user' = parsed_args.puser
          /\ secondary_user' = parsed_args.suser
          /\ command' = parsed_args.cmd
          /\ dpc' = "entry"
          /\ UNCHANGED <<how, sink>>
  /\ UNCHANGED <<runLocals, ip_prefix, primary_ips, secondary_ips>>

\* suffix lists given on the command line: absent, or one or two suffixes
RunSuffixLists ==
  UNION {[1..k -> SuffixPool \ {<<>>}] : k \in 0..MaxRunSuffixes}

\* -ip-prefix: absent, valid, valid with a trailing dot, out of range
RunPrefixes ==
  {<<>>,
   <<"1", "0", ".", "0", ".", "0">>,
   <<"1", "0", ".", "0", ".", "0", ".">>,
   <<"2", "5", "6", ".", "1", ".", "1">>}

SshClients == {"ok", "missing", "nonzero", "unlaunchable"}

\* str.strip('"')
RECURSIVE StripQuotes(_)
StripQuotes(s) ==
  IF s # <<>> /\ Head(s) = "\""
  THEN StripQuotes(Tail(s))
  ELSE IF s # <<>> /\ s[Len(s)] = "\""
  THEN StripQuotes(SubSeq(s, 1, Len(s) - 1))
  ELSE s

KeyIpPrefix == <<"I", "P", "_", "P", "R", "E", "F", "I", "X">>

KeyAllowedIps == <<"A", "L", "L", "O", "W", "E", "D", "_", "I", "P", "S">>

\* lines 92-103: one line of a config file, applied to the settings so far
LoadLine(settings, raw) ==
  LET line == StrStrip(raw)
      eq == CHOOSE i \in 1..Len(line) :
              line[i] = "=" /\ \A j \in 1..(i - 1) : line[j] # "="
      key == StrStrip(SubSeq(line, 1, eq - 1))
      value == StripQuotes(StrStrip(SubSeq(line, eq + 1, Len(line))))
  IN  IF line = <<>> \/ Head(line) = "#" \/ ~Contains(line, <<"=">>)
      THEN settings
      ELSE IF key = KeyIpPrefix
      THEN [settings EXCEPT !.ip_prefix = value]
      ELSE IF key = KeyAllowedIps
      THEN [settings EXCEPT
              !.allowed_ips =
                 parse_allowed_ips([type |-> "str", value |-> value]).val]
      ELSE settings

RECURSIVE LoadLines(_, _)
LoadLines(settings, lines) ==
  IF lines = <<>> THEN settings
  ELSE LoadLines(LoadLine(settings, Head(lines)), Tail(lines))

\* lines 79-106: the settings after _load_config; config_file is the first
\* config file that exists, as its lines
load_config(config_file) ==
  LET defaults == [ip_prefix |-> default_ip_prefix,
                   allowed_ips |-> DefaultAllowedIps]
  IN  IF ~config_file.exists THEN defaults
      ELSE LoadLines(defaults, config_file.lines)

\* a line NAME=value of a config file
Assignment(indent, key, eq, value) == indent \o key \o eq \o value \o <<NL>>

\* defaults.conf: absent; a quoted valid prefix; an octet above 255; a
\* comment, a prefix that is not numeric and an allow-list
ConfigFiles ==
  {[exists |-> FALSE, lines |-> <<>>],
   [exists |-> TRUE,
    lines |-> <<Assignment(<<>>, KeyIpPrefix, <<"=">>,
                           <<"\"", "1", "0", ".", "0", ".", "1", "\"">>)>>],
   [exists |-> TRUE,
    lines |-> <<Assignment(<<>>, KeyIpPrefix, <<"=">>,
                           <<"9", "9", "9", ".", "1", ".", "1">>)>>],
   [exists |-> TRUE,
    lines |-> <<<<"#", " ", "l", "a", "b", NL>>,
                Assignment(<<" ">>, KeyIpPrefix, <<" ", "=", " ">>,
                           <<"l", "a", "b">>),
                Assignment(<<>>, KeyAllowedIps, <<"=">>,
                           <<"\"", "1", "-", "3", " ", "2", "5", "\"">>)>>]}

\* run(args) is about to be called on a hub as constructed, its settings
\* those of the config file found
InitRun ==
  /\ InitIdle
  /\ InstallerIdle
  /\ ssh_client \in SshClients
  /\ parsed_args \in
       [given : {TRUE},
        primary : RunSuffixLists,
        secondary : RunSuffixLists,
        puser : {TxtRoot, <<"u">> \o CLIENT_NUM},
        suser : {TxtAdmin},
        cmd : {<<>>, CmdTemplate},
        ip_prefix : RunPrefixes]
  /\ \E config_file \in ConfigFiles :
       /\ ip_prefix = load_config(config_file).ip_prefix
       /\ allowed_ips = load_config(config_file).allowed_ips
  /\ ops = <<>>
  /\ arg = NoCall
  /\ ret = <<>>
  /\ dpc = "run"

NextRun ==
  \/ RunCheckSsh
  \/ RunParseArgs
  \/ RunIpPrefix
  \/ RunPrimary
  \/ RunSecondary
  \/ RunValidate

SpecRun == InitRun /\ [][NextRun]_vars

\* C17: if the remote-shell client is unavailable, run() finds out in its
\* first step, by one call of _check_ssh, and exits with status 1: no host
\* is validated, nothing is parsed, and no task is built, submitted or
\* started.
C17_NoSshExitsFirst ==
  ssh_client # "ok" =>
    /\ dpc \in {"run", "exited"}
    /\ ops \in {<<>>, <<"check_ssh">>}
    /\ primary_ips = <<>> /\ secondary_ips = <<>>
    /\ tasks = <<>> /\ submitted = 0 /\ wpc = <<>>
    /\ dpc = "exited" =>
         /\ ops = <<"check_ssh">>
         /\ ExitStatus = 1
         /\ ssh_client \in {"missing", "nonzero"} =>
              how = "SystemExit" /\ sink = <<RunRec(TxtNoSsh)>>

\* C17 witness: run() has exited because the client is missing, although
\* valid hosts and a command were given.
C17_Witness ==
  /\ ssh_client = "missing"
  /\ dpc = "exited"
  /\ parsed_args.primary = <<<<"1">>, <<"2">>>>
  /\ parsed_args.cmd # <<>>

\* run() is over: it has called execute_commands or the process has exited
RunOver == dpc \in {"entry", "exited"}

\* execute_commands was called
Dispatched == InList("execute_commands", ops)

\* the process exited with status 1 and execute_commands was never called
HaltedBeforeDispatch ==
  dpc = "exited" /\ how = "SystemExit" /\ ExitStatus = 1 /\ ~Dispatched

\* a suffix that is all-digits and in the allow-list
ValidSuffix(x) == ~Excluded(x)

AnyValidSuffix ==
  \E x \in {parsed_args.primary[i] : i \in 1..Len(parsed_args.primary)}
          \cup {parsed_args.secondary[i] : i \in 1..Len(parsed_args.secondary)} :
    ValidSuffix(x)

\* a prefix of three groups of one to three digits, each at most 255,
\* possibly followed by dots
WellFormedPrefix(p) ==
  LET parts == StrSplit(p, ".")
  IN  /\ Len(parts) >= 3
      /\ \A i \in 1..Len(parts) :
           IF i <= 3
           THEN AllDigits(parts[i]) /\ Len(parts[i]) <= 3
                  /\ DecimalValue(parts[i]) <= 255
           ELSE parts[i] = <<>>

\* the prefix in force: the one given, without its trailing dots, else the
\* one the constructor set from the default or the config file
EffectivePrefix ==
  IF parsed_args.ip_prefix = <<>> THEN ip_prefix
  ELSE LET parts == StrSplit(parsed_args.ip_prefix, ".")
       IN  parts[1] \o <<".">> \o parts[2] \o <<".">> \o parts[3]

\* hosts are the addresses of the valid suffixes of input under the prefix
\* in force, each once, in the order in which they first occur
IsHostsOf(hosts, input) ==
  LET good == {input[i] : i \in {j \in 1..Len(input) : ValidSuffix(input[j])}}
      addr(x) == EffectivePrefix \o <<".">> \o x
  IN  /\ {hosts[i] : i \in 1..Len(hosts)} = {addr(x) : x \in good}
      /\ Len(hosts) = Cardinality(good)
      /\ \A x, y \in good :
           FirstIndex(x, input) < FirstIndex(y, input)
             => FirstIndex(addr(x), hosts) < FirstIndex(addr(y), hosts)

\* execute_commands was called with the valid hosts of both groups and the
\* users and command given
DispatchedWithValidHosts ==
  /\ dpc = "entry"
  /\ IsHostsOf(primary_ips, parsed_args.primary)
  /\ IsHostsOf(secondary_ips, parsed_args.secondary)
  /\ primary_user = parsed_args.puser
  /\ secondary_user = parsed_args.suser
  /\ command = parsed_args.cmd

PrefixAccepted ==
  parsed_args.ip_prefix = <<>> \/ WellFormedPrefix(parsed_args.ip_prefix)

CountOf(x, list) == Cardinality({i \in 1..Len(list) : list[i] = x})

\* the warnings the logger received about a repeated suffix x
DuplicateWarnings(x) ==
  Cardinality({i \in 1..Len(sink) :
                 /\ sink[i].level = "warning"
                 /\ sink[i].text = TxtDuplicate \o x \o <<"'">>})

\* C21: within one pass of _parse_ips a valid suffix that occurs more than
\* once yields its address once only, at its first occurrence; every later
\* occurrence is dropped with one warning and adds no entry to the error
\* list; the addresses returned are pairwise distinct and stand in the
\* order in which their suffixes first occur in the input.
C21_DuplicatesDropped ==
  Returned("parse_ips") =>
    LET input == arg.val
        hosts == ret.valid_ips
        addr(x) == ip_prefix \o <<".">> \o x
        valid == {input[i] : i \in {j \in 1..Len(input) : ValidSuffix(input[j])}}
    IN  /\ \A x \in valid :
             /\ CountOf(addr(x), hosts) = 1
             /\ DuplicateWarnings(x) = CountOf(x, input) - 1
             /\ ~InList(TxtInvalidSuffix \o x \o <<"'">>, ret.errors)
        /\ \A i, j \in 1..Len(hosts) : i # j => hosts[i] # hosts[j]
        /\ \A x, y \in valid :
             FirstIndex(x, input) < FirstIndex(y, input)
               => FirstIndex(addr(x), hosts) < FirstIndex(addr(y), hosts)
        /\ Len(ret.errors) = Len(SelectSeq(input, Excluded))

\* C21 witness: '1 2 1' gave two addresses, one warning and no error.
C21_Witness ==
  /\ Returned("parse_ips")
  /\ arg.val = <<<<"1">>, <<"2">>, <<"1">>>>
  /\ Len(ret.valid_ips) = 2
  /\ DuplicateWarnings(<<"1">>) = 1
  /\ ret.errors = <<>>

(***************************************************************************)
(* The format of a network prefix.                                         *)
(***************************************************************************)
\* p without its last character when that is a dot
StripOneDot(p) ==
  IF p # <<>> /\ p[Len(p)] = "." THEN SubSeq(p, 1, Len(p) - 1) ELSE p

\* exactly three dot-separated groups of one to three digits, each in 0..255
ThreeOctets(p) ==
  LET parts == StrSplit(p, ".")
  IN  /\ Len(parts) = 3
      /\ \A i \in 1..3 :
           /\ AllDigits(parts[i])
           /\ Len(parts[i]) <= 3
           /\ DecimalValue(parts[i]) <= 255

\* C22 (as claimed): _validate_ip_prefix accepts a raw string exactly when,
\* after stripping at most one trailing dot, it consists of three
\* dot-separated groups of one to three digits whose values lie in 0..255;
\* it rejects every other string.
C22_PrefixAcceptedIffThreeOctets ==
  Returned("validate_ip_prefix") =>
    (ret <=> ThreeOctets(StripOneDot(arg.val)))

(***************************************************************************)
(* execute_commands called directly with user and command templates, up to *)
(* the creation of the pool.                                               *)
(***************************************************************************)
\* the literal pieces of a template, the placeholder standing between them
TemplateParts ==
  {<<<<"r", "o", "o", "t">>>>,
   <<<<"u">>, <<>>>>,
   <<<<>>, <<"x">>, <<>>>>,
   <<<<"i", "d", " ">>, <<>>>>,
   <<<<"$", "C">>, <<"$">>>>}

\* the pieces with a text between every two of them
RECURSIVE FromParts(_, _)
FromParts(parts, between) ==
  IF Len(parts) = 1 THEN parts[1]
  ELSE parts[1] \o between \o FromParts(Tail(parts), between)

Templates == {FromParts(p, CLIENT_NUM) : p \in TemplateParts}

\* suffixes of the hosts handed over
TaskSuffixes == {1, 2, 25}

HostLists ==
  UNION {[1..k -> {HostIp(n) : n \in TaskSuffixes}] : k \in 0..MaxGroupHosts}

InitTasks ==
  /\ InitHub
  /\ shutdown = FALSE
  /\ preset = FALSE
  /\ deadline = FALSE
  /\ max_parallel_connections = 1
  /\ primary_ips \in HostLists
  /\ secondary_ips \in HostLists
  /\ primary_user \in Templates
  /\ secondary_user \in Templates
  /\ command \in Templates \cup {<<>>}
  /\ tasks = <<>>
  /\ submitted = 0
  /\ work_queue = <<>>
  /\ wpc = <<>>
  /\ calls = <<>>
  /\ fut = <<>>
  /\ produced = <<>>
  /\ observed = <<>>
  /\ dpc = "entry"
  /\ how = "none"
  /\ waiter = <<>>
  /\ batch = <<>>
  /\ yielded = {}
  /\ cur = 0
  /\ sink = <<>>

NextTasks == Enter

SpecTasks == InitTasks /\ [][NextTasks]_vars

\* the template with the suffix in the place of every placeholder
Filled(tmpl, suffix) ==
  FromParts(CHOOSE p \in TemplateParts : FromParts(p, CLIENT_NUM) = tmpl,
            suffix)

\* the suffix a host address was built from
SuffixOfHost(ip) == IntToStr(CHOOSE n \in TaskSuffixes : HostIp(n) = ip)

\* the task of one host of a group
IsTaskOf(task, ip, user_tmpl) ==
  /\ task.ip = ip
  /\ task.user = Filled(user_tmpl, SuffixOfHost(ip))
  /\ task.cmd = Filled(command, SuffixOfHost(ip))

\* C23: the task list holds exactly one task per primary host followed by
\* one per secondary host, each group in input order; a task's user is its
\* group's user template and its command the shared command template, with
\* every placeholder replaced by the host's own suffix; an empty group
\* contributes no task.
C23_TaskList ==
  dpc = "submit" =>
    LET np == Len(primary_ips)
        ns == Len(secondary_ips)
    IN  /\ Len(tasks) = np + ns
        /\ \A i \in 1..np : IsTaskOf(tasks[i], primary_ips[i], primary_user)
        /\ \A i \in 1..ns :
             IsTaskOf(tasks[np + i], secondary_ips[i], secondary_user)

\* C23 witness: two primary hosts and one secondary host, a placeholder in
\* both user templates and twice in the command.
C23_Witness ==
  /\ dpc = "submit"
  /\ primary_ips = <<HostIp(25), HostIp(1)>>
  /\ secondary_ips = <<HostIp(2)>>
  /\ primary_user = <<"u">> \o CLIENT_NUM
  /\ secondary_user = CLIENT_NUM \o <<"x">> \o CLIENT_NUM
  /\ command = CLIENT_NUM \o <<"x">> \o CLIENT_NUM
  /\ tasks[1].user = <<"u", "2", "5">>
  /\ tasks[3].cmd = <<"2", "x", "2">>

(***************************************************************************)
(* What run() hands to execute_commands.                                   *)
(***************************************************************************)
\* the tasks execute_commands builds from the arguments of the call
HandedTasks ==
  BuildTasks(primary_ips, secondary_ips, primary_user, secondary_user, command)

GivenSuffixes ==
  {parsed_args.primary[i] : i \in 1..Len(parsed_args.primary)}
    \cup {parsed_args.secondary[i] : i \in 1..Len(parsed_args.secondary)}

\* C24: every task run() hands to the dispatcher targets a host whose
\* suffix is all-digits and in the allow-list, the host being the prefix in
\* force joined to that suffix; no task exists for a suffix given on the
\* command line that is not all-digits or not in the allow-list.
C24_OnlyAllowedHostsDispatched ==
  Dispatched =>
    /\ \A i \in 1..Len(HandedTasks) :
         LET x == ClientNum(HandedTasks[i].ip)
         IN  /\ AllDigits(x)
             /\ InList(x, allowed_ips)
             /\ x \in GivenSuffixes
             /\ HandedTasks[i].ip = ip_prefix \o <<".">> \o x
    /\ \A x \in GivenSuffixes :
         Excluded(x) =>
           \A i \in 1..Len(HandedTasks) :
             HandedTasks[i].ip # ip_prefix \o <<".">> \o x

\* C24 witness: each group held an excluded suffix and an allowed one, and
\* execute_commands was called with one host per group.
C24_Witness ==
  /\ dpc = "entry"
  /\ Dispatched
  /\ parsed_args.primary = <<<<"1", "a">>, <<"1">>>>
  /\ parsed_args.secondary = <<<<"9", "9">>, <<"2">>>>
  /\ Len(HandedTasks) = 2
  /\ ClientNum(HandedTasks[1].ip) = <<"1">>
  /\ ClientNum(HandedTasks[2].ip) = <<"2">>

(***************************************************************************)
(* install.py: SSHOperationsHubInstaller.                                  *)
(***************************************************************************)
\* line 33
VERSION == <<"2", ".", "0", ".", "0">>

\* Optional[str]
None == [some |-> FALSE, text |-> <<>>]

Some(t) == [some |-> TRUE, text |-> t]

\* the truth value of an Optional[str]: None and '' are false
Truthy(v) == v.some /\ v.text # <<>>

\* the paths of a mode: system_bin_dir and system_config_dir, or the user's
Mode(system_wide) == IF system_wide THEN "system" ELSE "user"

\* mutant of check_sudo: every caller counts as root
check_sudo_assumed == TRUE

\* lines 51-53
check_sudo == geteuid = 0

\* lines 55-63
get_current_version(f, system_wide) ==
  LET version_file == f[Mode(system_wide)].version_file
  IN  IF version_file.exists THEN Some(StrStrip(version_file.text)) ELSE None

\* the statements of the try block of install() that change a path, up to
\* _set_version
InstallSteps == 7

\* lines 146-180, one statement
InstallStep(f, system_wide, k) ==
  LET m == Mode(system_wide)
  IN  CASE k = 1 -> f                                    \* l.146 bin_dir.mkdir
        [] k = 2 -> IF f[m].target_script                \* l.149 _backup_existing
                    THEN [f EXCEPT ![m].backup = TRUE]
                    ELSE f
        [] k = 3 -> IF system_wide                       \* l.155-159 lib_dir
                    THEN [f EXCEPT !.lib_dir = TRUE]
                    ELSE f
        [] k = 4 -> [f EXCEPT ![m].target_script = TRUE] \* l.169, l.172
        [] k = 5 -> IF f.config_source                   \* l.177 _copy_config_files
                    THEN [f EXCEPT ![m].config_dir = TRUE]
                    ELSE f
        [] k = 6 -> [f EXCEPT ![m].config_dir = TRUE]    \* l.68 parent.mkdir
        [] k = 7 -> [f EXCEPT ![m].version_file =        \* l.69 write_text
                       [exists |-> TRUE, text |-> VERSION]]

\* the paths after the first k statements
RECURSIVE InstallAfter(_, _, _)
InstallAfter(f, system_wide, k) ==
  IF k = 0 THEN f
  ELSE InstallStep(InstallAfter(f, system_wide, k - 1), system_wide, k)

\* mutant of install: a recorded version does not stop it
install_over_recorded(f, system_wide, force, fault, link) ==
  IF system_wide /\ ~check_sudo THEN [files |-> f, result |-> FALSE]
  ELSE IF ~f.source_script THEN [files |-> f, result |-> FALSE]
  ELSE IF fault # 0
  THEN [files |-> InstallAfter(f, system_wide, fault - 1), result |-> FALSE]
  ELSE LET done == InstallAfter(f, system_wide, InstallSteps)
       IN  [files |-> IF system_wide
                      THEN [done EXCEPT !.usr_bin_link = link]
                      ELSE done,
            result |-> TRUE]

\* lines 121-204. fault: the statement of the try block that raises, 0 for
\* none; link: whether /usr/bin/ssh-operations-hub stands after lines 183-190,
\* whose own failure is caught and only printed
install(f, system_wide, force, fault, link) ==
  IF system_wide /\ ~check_sudo THEN [files |-> f, result |-> FALSE]
  ELSE IF ~f.source_script THEN [files |-> f, result |-> FALSE]
  ELSE IF Truthy(get_current_version(f, system_wide)) /\ ~force
  THEN [files |-> f, result |-> FALSE]
  ELSE IF fault # 0
  THEN [files |-> InstallAfter(f, system_wide, fault - 1), result |-> FALSE]
  ELSE LET done == InstallAfter(f, system_wide, InstallSteps)
       IN  [files |-> IF system_wide
                      THEN [done EXCEPT !.usr_bin_link = link]
                      ELSE done,
            result |-> TRUE]

\* mutant of update: the installation is not forced
update_unforced(f, system_wide, fault, link) ==
  LET current_version == get_current_version(f, system_wide)
  IN  IF ~Truthy(current_version)
      THEN [files |-> f, result |-> FALSE, invoked |-> <<"update">>]
      ELSE IF current_version.text = VERSION
      THEN [files |-> f, result |-> TRUE, invoked |-> <<"update">>]
      ELSE LET r == install(f, system_wide, FALSE, fault, link)
           IN  [files |-> r.files, result |-> r.result,
                invoked |-> <<"update", "install">>]

\* lines 206-218
update(f, system_wide, fault, link) ==
  LET current_version == get_current_version(f, system_wide)
  IN  IF ~Truthy(current_version)
      THEN [files |-> f, result |-> FALSE, invoked |-> <<"update">>]
      ELSE IF current_version.text = VERSION
      THEN [files |-> f, result |-> TRUE, invoked |-> <<"update">>]
      ELSE LET r == install(f, system_wide, TRUE, fault, link)
           IN  [files |-> r.files, result |-> r.result,
                invoked |-> <<"update", "install">>]

\* str.lower() on the letters of an answer
PyLower(s) ==
  [i \in 1..Len(s) |->
     CASE s[i] = "Y" -> "y"
       [] s[i] = "E" -> "e"
       [] s[i] = "S" -> "s"
       [] s[i] = "N" -> "n"
       [] OTHER -> s[i]]

\* line 268
SaysYes(response) == PyLower(response) \in {<<"y">>, <<"y", "e", "s">>}

\* the statements of the try block of uninstall() that change a path
UninstallSteps == 4

\* mutant of UninstallStep: an operator who declines keeps the version file
UninstallStepKeepsVersion(f, system_wide, response, k) ==
  LET m == Mode(system_wide)
  IN  CASE k = 1 -> [f EXCEPT ![m].target_script = FALSE]
        [] k = 2 -> IF system_wide THEN [f EXCEPT !.lib_dir = FALSE] ELSE f
        [] k = 3 -> IF system_wide THEN [f EXCEPT !.usr_bin_link = FALSE] ELSE f
        [] k = 4 -> IF f[m].config_dir /\ SaysYes(response)
                    THEN [f EXCEPT ![m].config_dir = FALSE,
                                   ![m].version_file = NoVersionFile]
                    ELSE f

\* lines 238-275, one statement
UninstallStep(f, system_wide, response, k) ==
  LET m == Mode(system_wide)
  IN  CASE k = 1 -> [f EXCEPT ![m].target_script = FALSE] \* l.238-250
        [] k = 2 -> IF system_wide                        \* l.254-257 lib_dir
                    THEN [f EXCEPT !.lib_dir = FALSE]
                    ELSE f
        [] k = 3 -> IF system_wide                        \* l.260-263 symlink
                    THEN [f EXCEPT !.usr_bin_link = FALSE]
                    ELSE f
        [] k = 4 -> IF f[m].config_dir                    \* l.266-275
                    THEN IF SaysYes(response)
                         THEN [f EXCEPT ![m].config_dir = FALSE,
                                        ![m].version_file = NoVersionFile]
                         ELSE [f EXCEPT ![m].version_file = NoVersionFile]
                    ELSE f

RECURSIVE UninstallAfter(_, _, _, _)
UninstallAfter(f, system_wide, response, k) ==
  IF k = 0 THEN f
  ELSE UninstallStep(UninstallAfter(f, system_wide, response, k - 1),
                     system_wide, response, k)

\* lines 220-283. fault: the statement of the try block that raises (input()
\* included), 0 for none
uninstall(f, system_wide, response, fault) ==
  IF system_wide /\ ~check_sudo THEN [files |-> f, result |-> FALSE]
  ELSE IF ~Truthy(get_current_version(f, system_wide))
  THEN [files |-> f, result |-> FALSE]
  ELSE IF fault # 0
  THEN [files |-> UninstallAfter(f, system_wide, response, fault - 1),
        result |-> FALSE]
  ELSE [files |-> UninstallAfter(f, system_wide, response, UninstallSteps),
        result |-> TRUE]

\* what a version file may hold: this version, with a line end, an older
\* version, nothing
VersionTexts ==
  {VERSION, VERSION \o <<NL>>, <<"1", ".", "0", ".", "0">>, <<>>}

\* a mode as an earlier run of an installer left it
PriorInstall(t) ==
  [target_script |-> TRUE, backup |-> FALSE, config_dir |-> TRUE,
   version_file |-> [exists |-> TRUE, text |-> t]]

\* a mode whose configuration directory alone exists
ConfigOnly ==
  [target_script |-> FALSE, backup |-> FALSE, config_dir |-> TRUE,
   version_file |-> NoVersionFile]

ModeFiles ==
  {NotInstalled, ConfigOnly} \cup {PriorInstall(t) : t \in VersionTexts}

\* the paths before the first call: the library directory and the link in
\* /usr/bin belong to a system-wide installation
InstallerFiles ==
  {[source_script |-> src, config_source |-> cfg,
    lib_dir |-> sys.target_script, usr_bin_link |-> sys.target_script,
    system |-> sys, user |-> usr] :
     src \in BOOLEAN, cfg \in BOOLEAN, sys \in ModeFiles, usr \in ModeFiles}

\* what the operator types at the prompt of line 267
Responses == {<<"y">>, <<"Y", "E", "S">>, <<"n">>, <<>>}

\* a method of the installer is about to be called
InitInstall ==
  /\ InitIdle
  /\ ssh_client = "ok"
  /\ parsed_args = NoArgs
  /\ ip_prefix = default_ip_prefix
  /\ allowed_ips = DefaultAllowedIps
  /\ ops = <<>>
  /\ arg = NoCall
  /\ ret = FALSE
  /\ dpc = "installer"
  /\ geteuid \in {0, 1000}
  /\ files \in InstallerFiles
  /\ before = files
  /\ invocations = 0

installerLocals ==
  <<dispatchVars, dpc, sink, ssh_client, parsed_args, ip_prefix, allowed_ips,
    geteuid>>

\* installer.install(system_wide, force)
InstallCall ==
  /\ dpc = "installer"
  /\ invocations < MaxCalls
  /\ invocations' = invocations + 1
  /\ \E system_wide, force, link \in BOOLEAN : \E fault \in 0..InstallSteps :
       LET r == install(files, system_wide, force, fault, link)
       IN  /\ arg' = [fn |-> "install",
                      val |-> [system_wide |-> system_wide, force |-> force],
                      env |-> [fault |-> fault, link |-> link]]
           /\ ops' = <<"install">>
           /\ files' = r.files
           /\ ret' = r.result
  /\ before' = files
  /\ UNCHANGED installerLocals

\* installer.update(system_wide)
UpdateCall ==
  /\ dpc = "installer"
  /\ invocations < MaxCalls
  /\ invocations' = invocations + 1
  /\ \E system_wide, link \in BOOLEAN : \E fault \in 0..InstallSteps :
       LET r == update(files, system_wide, fault, link)
       IN  /\ arg' = [fn |-> "update", val |-> [system_wide |-> system_wide],
                      env |-> [fault |-> fault, link |-> link]]
           /\ ops' = r.invoked
           /\ files' = r.files
           /\ ret' = r.result
  /\ before' = files
  /\ UNCHANGED installerLocals

\* installer.uninstall(system_wide), the operator typing response if asked
UninstallCall ==
  /\ dpc = "installer"
  /\ invocations < MaxCalls
  /\ invocations' = invocations + 1
  /\ \E system_wide \in BOOLEAN : \E response \in Responses :
     \E fault \in 0..UninstallSteps :
       LET r == uninstall(files, system_wide, response, fault)
       IN  /\ arg' = [fn |-> "uninstall",
                      val |-> [system_wide |-> system_wide],
                      env |-> [fault |-> fault, response |-> response]]
           /\ ops' = <<"uninstall">>
           /\ files' = r.files
           /\ ret' = r.result
  /\ before' = files
  /\ UNCHANGED installerLocals

NextInstall ==
  \/ InstallCall
  \/ UpdateCall
  \/ UninstallCall

SpecInstall == InitInstall /\ [][NextInstall]_vars

\* the method called last
Called(fn) == arg.fn = fn

\* the version recorded for a mode, if one is
Recorded(f, system_wide) == Truthy(get_current_version(f, system_wide))

(***************************************************************************)
(* The installer's methods, one call at a time.                            *)
(***************************************************************************)
\* the installer may write the paths of the mode
Permitted(system_wide) == ~system_wide \/ geteuid = 0

\* C25: install(system_wide=True) and uninstall(system_wide=True) called
\* by a process that is not root return False and leave every path of the
\* installation as it was.
C25_SystemWideNeedsRoot ==
  (arg.fn \in {"install", "uninstall"} /\ arg.val.system_wide /\ geteuid # 0)
    => (ret = FALSE /\ files = before)

\* C25 witness: a system-wide installation was recorded, its removal was
\* asked for by a process that is not root, and nothing was removed.
C25_Witness ==
  /\ Called("uninstall")
  /\ arg.val.system_wide
  /\ geteuid # 0
  /\ arg.env.fault = 0
  /\ Recorded(before, TRUE)
  /\ before.system.target_script
  /\ ret = FALSE
  /\ files.system.target_script

\* C26: install() for a mode that has a version recorded returns False and
\* changes no path when force is false; with force true it goes on to the
\* installation (it succeeds when it is permitted, the source script exists
\* and no statement fails), and whenever it returns True the version
\* recorded afterwards is VERSION.
C26_InstallOverRecordedVersion ==
  (Called("install") /\ Recorded(before, arg.val.system_wide)) =>
    IF ~arg.val.force
    THEN ret = FALSE /\ files = before
    ELSE /\ (Permitted(arg.val.system_wide) /\ before.source_script
               /\ arg.env.fault = 0) => ret = TRUE
         /\ ret = TRUE =>
              get_current_version(files, arg.val.system_wide) = Some(VERSION)

\* C26 witness: version 1.0.0 was recorded for the user and a forced
\* installation replaced it.
C26_Witness ==
  /\ Called("install")
  /\ ~arg.val.system_wide
  /\ arg.val.force
  /\ get_current_version(before, FALSE) = Some(<<"1", ".", "0", ".", "0">>)
  /\ ret = TRUE
  /\ get_current_version(files, FALSE) = Some(VERSION)

\* C27: update() returns False and changes nothing when no version is
\* recorded; returns True, without calling install and without changing
\* anything, when the recorded version is VERSION; otherwise it calls
\* install(system_wide, force=True) and returns what that returns.
C27_Update ==
  Called("update") =>
    LET system_wide == arg.val.system_wide
        recorded == get_current_version(before, system_wide)
    IN  IF ~Recorded(before, system_wide)
        THEN ret = FALSE /\ files = before /\ ops = <<"update">>
        ELSE IF recorded.text = VERSION
        THEN ret = TRUE /\ files = before /\ ops = <<"update">>
        ELSE /\ ops = <<"update", "install">>
             /\ [files |-> files, result |-> ret]
                  = install(before, system_wide, TRUE, arg.env.fault,
                            arg.env.link)

\* C27 witness: version 1.0.0 was recorded system-wide and update, run as
\* root, installed VERSION through install.
C27_Witness ==
  /\ Called("update")
  /\ arg.val.system_wide
  /\ get_current_version(before, TRUE) = Some(<<"1", ".", "0", ".", "0">>)
  /\ ops = <<"update", "install">>
  /\ ret = TRUE
  /\ get_current_version(files, TRUE) = Some(VERSION)

\* C28: in user mode, after install returns True the executable exists and
\* the recorded version is VERSION; after uninstall returns True the
\* executable is gone and no version is recorded, whatever the operator
\* answers about the configuration directory; uninstall with no version
\* recorded returns False.
C28_UserInstallUninstall ==
  /\ (Called("install") /\ ~arg.val.system_wide /\ ret = TRUE) =>
       /\ files.user.target_script
       /\ get_current_version(files, FALSE) = Some(VERSION)
  /\ (Called("uninstall") /\ ~arg.val.system_wide /\ ret = TRUE) =>
       /\ ~files.user.target_script
       /\ get_current_version(files, FALSE) = None
  /\ (Called("uninstall") /\ ~arg.val.system_wide /\ ~Recorded(before, FALSE))
       => ret = FALSE

\* C28 witness: the second call of a run removed the user installation of
\* VERSION, the operator declining to remove the configuration directory,
\* which is still there.
C28_Witness ==
  /\ invocations = 2
  /\ Called("uninstall")
  /\ ~arg.val.system_wide
  /\ arg.env.response = <<"n">>
  /\ before.user.target_script
  /\ before.user.version_file = [exists |-> TRUE, text |-> VERSION]
  /\ ret = TRUE
  /\ files.user.config_dir
  /\ ~files.user.target_script

(***************************************************************************)
(* The shutdown flag.                                                      *)
(***************************************************************************)
\* C29 (as claimed): the executor looks at the shutdown flag between its
\* probe and its command: with the flag set when the probe has succeeded,
\* the command invocation is not started.
C29_NoCommandOnceShutdown ==
  [][\A t \in TaskIds :
       (shutdown /\ wpc[t] = "probe") => wpc'[t] # "command"]_vars

\* the handler runs in this step
HandlerStep ==
  /\ sink' = Append(sink, LogRec("info", "interrupt", 0, TxtInterrupted))
  /\ how' = "SystemExit"
  /\ UNCHANGED <<workerVars, tasks, submitted, iterVars>>

\* how often the handler has run
SignalCount ==
  Cardinality({i \in 1..Len(sink) : sink[i].src = "interrupt"})

\* C30: the shutdown flag is unset when the dispatch begins on a hub as
\* constructed; only a step of the signal handler sets it, never a step of a
\* worker or of the dispatcher; once set it stays set, also when further
\* signals arrive.
C30_FlagMonotone ==
  /\ ~shutdown
  /\ [][/\ shutdown => shutdown'
        /\ (~shutdown /\ shutdown') => HandlerStep
        /\ HandlerStep => shutdown']_vars

\* C30 witness: two signals have arrived, workers have run, and the flag is
\* set.
C30_Witness ==
  /\ ~preset
  /\ SignalCount = 2
  /\ \E t \in TaskIds : wpc[t] = "done"
  /\ shutdown

(***************************************************************************)
(* execute_commands with nothing to do.                                    *)
(***************************************************************************)
\* no host in either group, or an empty command
NothingToDo ==
  (primary_ips = <<>> /\ secondary_ips = <<>>) \/ command = <<>>

\* C31: execute_commands called with no host in either group, or with an
\* empty command, does nothing: no pool is created, nothing is submitted, no
\* executor invocation starts, no result is emitted, and the call returns
\* normally.
C31_NothingToDoIsNoOp ==
  NothingToDo =>
    /\ dpc \in {"entry", "left"}
    /\ tasks = <<>>
    /\ submitted = 0
    /\ work_queue = <<>>
    /\ wpc = <<>>
    /\ calls = <<>>
    /\ Emitted = <<>>
    /\ dpc = "left" => (how = "return" /\ ExitStatus = 0)

\* C31 witness: hosts were given with an empty command, and the call has
\* returned after one warning.
C31_Witness ==
  /\ dpc = "left"
  /\ command = <<>>
  /\ Len(primary_ips) >= 1
  /\ Len(secondary_ips) >= 1
  /\ how = "return"
  /\ Len(sink) = 1
  /\ sink[1].level = "warning"

(***************************************************************************)
(* The allow-list of a configuration.                                     *)
(***************************************************************************)
\* the positions at which a word of s begins
WordStarts(s) ==
  {i \in 1..Len(s) : ~IsSpace(s[i]) /\ (i = 1 \/ IsSpace(s[i - 1]))}

\* the word of s that begins at i
WordAt(s, i) ==
  SubSeq(s, i,
         CHOOSE j \in i..Len(s) :
           /\ \A k \in i..j : ~IsSpace(s[k])
           /\ j = Len(s) \/ IsSpace(s[j + 1]))

\* the words of s from position i on, in order
RECURSIVE WordsFrom(_, _)
WordsFrom(s, i) ==
  IF i > Len(s) THEN <<>>
  ELSE IF i \in WordStarts(s) THEN <<WordAt(s, i)>> \o WordsFrom(s, i + 1)
  ELSE WordsFrom(s, i + 1)

\* the tokens an input holds: the elements of a list, the words of a string
TokensOf(input) ==
  IF input.type = "list" THEN input.value ELSE WordsFrom(input.value, 1)

\* the suffixes a list permits
PermittedBy(list) == {list[i] : i \in 1..Len(list)}

\* the concatenation of the expansions of tokens, built from the right
RECURSIVE Expansions(_)
Expansions(tokens) ==
  IF tokens = <<>> THEN <<>>
  ELSE Expansions(SubSeq(tokens, 1, Len(tokens) - 1))
         \o expand_range(tokens[Len(tokens)])

\* C32 (as claimed): the allow-list _parse_allowed_ips builds from a sequence
\* of tokens is the concatenation, in token order, of the range expansion of
\* each token; as a set of permitted suffixes it is the same for every
\* permutation or repetition of the tokens.
C32_AllowListFromTokens ==
  Returned("parse_allowed_ips") =>
    /\ ~ret.raised
    /\ ret.val = Expansions(TokensOf(arg.val))
    /\ \A other \in AllowedStrings \cup AllowedLists :
         PermittedBy(TokensOf(other)) = PermittedBy(TokensOf(arg.val))
           => /\ ~parse_allowed_ips(other).raised
              /\ PermittedBy(parse_allowed_ips(other).val) = PermittedBy(ret.val)

(***************************************************************************)
(* Placeholder substitution.                                              *)
(***************************************************************************)
\* the positions at which the placeholder begins in text
Occurrences(text) ==
  {i \in 1..(Len(text) - Len(CLIENT_NUM) + 1) :
     SubSeq(text, i, i + Len(CLIENT_NUM) - 1) = CLIENT_NUM}

\* position j of text lies outside every placeholder
Outside(text, j) ==
  \A i \in Occurrences(text) : j < i \/ j >= i + Len(CLIENT_NUM)

\* where position j of text lands once every placeholder before it has
\* become num
LandsAt(text, num, j) ==
  j - (Len(CLIENT_NUM) - Len(num))
        * Cardinality({i \in Occurrences(text) : i < j})

\* C33: _substitute_variables puts the suffix string in the place of every
\* occurrence of $CLIENT_NUM and keeps every other character where it was; a
\* text without the placeholder comes back unchanged; substituting again with
\* the same suffix changes nothing.
C33_Substitution ==
  Returned("substitute_variables") =>
    LET text == arg.val.text
        num == arg.val.client_num
    IN  /\ Len(ret) = Len(text) - (Len(CLIENT_NUM) - Len(num))
                                    * Cardinality(Occurrences(text))
        /\ \A j \in 1..Len(text) :
             Outside(text, j) => ret[LandsAt(text, num, j)] = text[j]
        /\ \A i \in Occurrences(text) :
             SubSeq(ret, LandsAt(text, num, i),
                    LandsAt(text, num, i) + Len(num) - 1) = num
        /\ Occurrences(text) = {} => ret = text
        /\ substitute_variables(ret, num) = ret

C33_Witness ==
  /\ Returned("substitute_variables")
  /\ Cardinality(Occurrences(arg.val.text)) = 2
  /\ \E j \in 1..Len(arg.val.text) : Outside(arg.val.text, j)
  /\ Len(arg.val.client_num) = 2
  /\ ret # arg.val.text

(***************************************************************************)
(* Progress of an undisturbed dispatch.                                    *)
(***************************************************************************)
\* no signal has arrived and the global timeout has not elapsed
Undisturbed == ~shutdown /\ ~deadline

\* task t is submitted and waits in the queue of the pool
Queued(t) == t \in 1..submitted /\ wpc[t] = "queued"

\* task t has been taken by a worker
Started(t) == t \in 1..submitted /\ wpc[t] # "queued"

\* task t has run to its end
Completed(t) == t \in 1..submitted /\ wpc[t] = "done"

\* C34: in a dispatch that no signal and no global timeout disturbs, with
\* every remote-shell invocation ending, every queued task is eventually
\* started, every task is eventually completed and execute_commands
\* eventually returns.
C34_UndisturbedDispatchCompletes ==
  []Undisturbed =>
    /\ \A t \in 1..MaxLiveTasks : Queued(t) ~> Started(t)
    /\ \A t \in 1..MaxLiveTasks : (t \in TaskIds) ~> Completed(t)
    /\ <>(dpc = "left" /\ how = "return" /\ AllFinished
            /\ submitted = Len(tasks))

\* C34 witness: two tasks on one worker, the second queued behind the first,
\* both completed and the call returned with no signal and no timeout.
C34_Witness ==
  /\ dpc = "left" /\ how = "return" /\ Undisturbed
  /\ max_parallel_connections = 1
  /\ Len(tasks) = 2 /\ submitted = 2
  /\ Completed(1) /\ Completed(2)
  /\ calls[2] # <<>>

(***************************************************************************)
(* A dispatch whose commands print several lines or fail with an error    *)
(* text, so that the blocks handed to the sink have more than one line.   *)
(***************************************************************************)
\* captured texts of one and of two lines
BlockTexts == {<<"a">>, <<"a", NL, "a">>}

NextBlocks ==
  \/ Enter
  \/ Submit
  \/ AsCompletedStart
  \/ IterNext
  \/ Wait
  \/ Body
  \/ PoolExit
  \/ Signal
  \/ Tick
  \/ StartTask
  \/ \E t \in TaskIds : EnterExecutor(t)
  \/ \E t \in TaskIds : ProbeDone(t, {"ok", "nonzero"})
  \/ \E t \in TaskIds : CommandDone(t, {"ok", "nonzero"}, BlockTexts)

SpecBlocks == InitLive /\ [][NextBlocks]_vars

\* the positions of the sink that hold the result block of a task
BlockPositions == {i \in 1..Len(sink) : sink[i].src = "result"}

\* more than one line
MultiLine(text) == Contains(text, <<NL>>)

\* C35: the message of a result reaches the sink as one whole block in one
\* emission: every result record holds the complete message of its task, no
\* task has its message spread over several records, and a step of the
\* program adds at most one record, whatever the order in which concurrent
\* tasks complete.
C35_BlocksEmittedWhole ==
  /\ [](\A i \in BlockPositions :
          /\ sink[i].task \in TaskIds
          /\ fut[sink[i].task].kind = "result"
          /\ sink[i].text = fut[sink[i].task].output
          /\ \A j \in BlockPositions : sink[j].task = sink[i].task => j = i)
  /\ [][/\ Len(sink') <= Len(sink) + 1
        /\ SubSeq(sink', 1, Len(sink)) = sink]_vars

\* C35 witness: two tasks ran side by side, both produced a block of several
\* lines, and the block of the second reached the sink before the block of
\* the first.
C35_Witness ==
  /\ max_parallel_connections = 2
  /\ \E i, j \in BlockPositions :
       /\ i < j
       /\ sink[i].task = 2 /\ sink[j].task = 1
       /\ MultiLine(sink[i].text) /\ MultiLine(sink[j].text)
       /\ \E k \in 1..(i - 1) : sink[k].src = "running" /\ sink[k].task = 1

(***************************************************************************)
(* Results and the shutdown flag.                                          *)
(***************************************************************************)
\* tasks whose call has ended with a message that the loop has not logged
Unreported ==
  {t \in TaskIds : wpc[t] = "done" /\ fut[t].output # <<>> /\ ReportsOf(t) = <<>>}

\* C36: from the step that sets the shutdown flag on, whether the flag was
\* set before the dispatch or by a signal during it, no task result and no
\* task fault is handed to the sink any more, however many tasks are done,
\* running or queued.
C36_NoResultOnceShutdown ==
  [][shutdown' => Emitted' = Emitted]_vars

\* C36 witness: a signal arrived after one result had been emitted, while
\* another task was running and a third was queued; the run is over, the
\* other two have ended with a message, and neither message was emitted.
C36_Witness ==
  /\ dpc = "left" /\ Interrupted
  /\ Len(Emitted) = 1
  /\ Cardinality(Unreported) = 2
  /\ \E t, u \in Unreported : calls[t] # <<>> /\ calls[u] = <<>>

(***************************************************************************)
(* The prefix the dispatched hosts are built from.                        *)
(***************************************************************************)
\* C37 (as claimed): every host run() dispatches a task for is built from a
\* prefix that satisfies _validate_ip_prefix, three dot-separated octets of
\* 0-255 each, whether the prefix is the built-in default, the IP_PREFIX of
\* a config file or the command-line override; an invalid override makes
\* run() exit with status 1 before any task is dispatched.
C37_DispatchedPrefixValid ==
  /\ Dispatched =>
       /\ validate_ip_prefix(ip_prefix)
       /\ ThreeOctets(ip_prefix)
       /\ \A i \in 1..Len(HandedTasks) :
            StartsWith(HandedTasks[i].ip, ip_prefix \o <<".">>)
  /\ (RunOver /\ ssh_client = "ok" /\ parsed_args.ip_prefix # <<>>
        /\ ~validate_ip_prefix(parsed_args.ip_prefix))
       => HaltedBeforeDispatch

(***************************************************************************)
(* Recorded version and executable.                                       *)
(***************************************************************************)
\* C38 (as claimed): after any sequence of install, update and uninstall
\* calls, those that fail part-way and return False included, a mode with a
\* version recorded has its executable wrapper: no reachable state has a
\* version recorded and the executable absent.
C38_RecordedImpliesExecutable ==
  \A system_wide \in BOOLEAN :
    Recorded(files, system_wide) => files[Mode(system_wide)].target_script

====
